---- MODULE Spec2Model ----
(***************************************************************************)
(* Connect Four rule engine (src/src/game.rs) over its packed bit storage  *)
(* (src/src/bitvec.rs): options, board, turn, result, the direction        *)
(* walker, move legality and application, and the text state codec.        *)
(***************************************************************************)
EXTENDS Integers, Sequences, FiniteSets, TLC

(***************************************************************************)
(* Bounds of the model and constants of the program.                       *)
(***************************************************************************)
\* Largest board width, height and area, and largest win length explored.
MaxWidth == 3
MaxHeight == 3
MaxCells == 9
MaxLength == 3
\* Most stones in a state text given at construction.
MaxStones == 3

DEFAULT_WIDTH == 7
DEFAULT_HEIGHT == 6
DEFAULT_LENGTH == 4

VARIABLES width, height, length, board, turn, result, last

options == <<width, height, length>>
data == <<board, turn, result>>
vars == <<width, height, length, board, turn, result, last>>

\* Option<Pos> / Option<&str>: the absent value.
None == <<>>
NoText == <<"None">>

(***************************************************************************)
(* Packed bit storage: the logical bits 0 .. length-1 of a BitVec.         *)
(***************************************************************************)
BitVecNew(len) == [i \in 0 .. len - 1 |-> FALSE]

BitVecSet(bits, index, value) == [bits EXCEPT ![index] = value]

\* Faulty variant: only the bits at even indices are cleared.
BitVecReset_even_bits(bits) == [i \in DOMAIN bits |-> IF i % 2 = 0 THEN FALSE ELSE bits[i]]

BitVecReset(bits) == [i \in DOMAIN bits |-> FALSE]

BitVecAny(bits) == \E i \in DOMAIN bits : bits[i]

\* BitVec::copy_from_bitvec; "panic" when the lengths differ.
BitVecCopyFrom(bits, other) ==
  IF DOMAIN bits # DOMAIN other THEN "panic"
  ELSE [i \in DOMAIN bits |-> other[i]]

(***************************************************************************)
(* Board cells.  A position is <<column, row>>; a cell state is one of     *)
(* "Empty", "X", "O".                                                      *)
(***************************************************************************)
idx(pos, h) == 2 * (pos[1] * h + pos[2])

\* Faulty variant: the owner bit is not written.
SetCell_occupied_only(bits, h, pos, state) ==
  BitVecSet(bits, idx(pos, h), state # "Empty")

\* ConnectFour::set: Empty clears the occupied bit only; X and O set the
\* occupied bit and write the owner bit.
SetCell(bits, h, pos, state) ==
  LET index == idx(pos, h)
  IN IF state = "Empty"
       THEN BitVecSet(bits, index, FALSE)
       ELSE BitVecSet(BitVecSet(bits, index, TRUE), index + 1, state = "O")

\* Index<Pos>: decode the two bits of a cell.
Cell(bits, h, pos) ==
  IF ~bits[idx(pos, h)] THEN "Empty"
  ELSE IF ~bits[idx(pos, h) + 1] THEN "X"
  ELSE "O"

from_player_id(player) == IF player = 1 THEN "X" ELSE "O"

player_from_id(player) == player = 2

player_to_id(t) == IF t THEN 2 ELSE 1

is_over(r) == r # "Ongoing"

(***************************************************************************)
(* Direction walker.                                                       *)
(***************************************************************************)
Directions == {"N", "NE", "E", "SE", "S", "SW", "W", "NW"}

\* Faulty variant: north-west steps a row down, as south-west does.
walk_north_west_descends(d, pos, w, h) ==
  LET c == pos[1]
      r == pos[2]
  IN CASE d = "N"  -> IF r + 1 >= h THEN None ELSE <<c, r + 1>>
       [] d = "NE" -> IF c + 1 >= w \/ r + 1 >= h THEN None ELSE <<c + 1, r + 1>>
       [] d = "E"  -> IF c + 1 >= w THEN None ELSE <<c + 1, r>>
       [] d = "SE" -> IF r = 0 THEN None
                      ELSE IF c + 1 >= w THEN None ELSE <<c + 1, r - 1>>
       [] d = "S"  -> IF r = 0 THEN None ELSE <<c, r - 1>>
       [] d = "SW" -> IF c = 0 THEN None
                      ELSE IF r = 0 THEN None ELSE <<c - 1, r - 1>>
       [] d = "W"  -> IF c = 0 THEN None ELSE <<c - 1, r>>
       [] d = "NW" -> IF c = 0 THEN None
                      ELSE IF r = 0 THEN None ELSE <<c - 1, r - 1>>

\* Direction::walk: the next position, or None when it leaves the board.
\* Decrements are checked_sub: below zero is None.
walk(d, pos, w, h) ==
  LET c == pos[1]
      r == pos[2]
  IN CASE d = "N"  -> IF r + 1 >= h THEN None ELSE <<c, r + 1>>
       [] d = "NE" -> IF c + 1 >= w \/ r + 1 >= h THEN None ELSE <<c + 1, r + 1>>
       [] d = "E"  -> IF c + 1 >= w THEN None ELSE <<c + 1, r>>
       [] d = "SE" -> IF r = 0 THEN None
                      ELSE IF c + 1 >= w THEN None ELSE <<c + 1, r - 1>>
       [] d = "S"  -> IF r = 0 THEN None ELSE <<c, r - 1>>
       [] d = "SW" -> IF c = 0 THEN None
                      ELSE IF r = 0 THEN None ELSE <<c - 1, r - 1>>
       [] d = "W"  -> IF c = 0 THEN None ELSE <<c - 1, r>>
       [] d = "NW" -> IF c = 0 THEN None
                      ELSE IF r + 1 >= h THEN None ELSE <<c - 1, r + 1>>

\* Faulty variant: the diagonals are mirrored instead of reversed.
inv_mirrors_diagonals(d) ==
  CASE d = "N"  -> "S"
    [] d = "NE" -> "SE"
    [] d = "E"  -> "W"
    [] d = "SE" -> "NE"
    [] d = "S"  -> "N"
    [] d = "SW" -> "NW"
    [] d = "W"  -> "E"
    [] d = "NW" -> "SW"

\* Direction::inv.
inv(d) ==
  CASE d = "N"  -> "S"
    [] d = "NE" -> "SW"
    [] d = "E"  -> "W"
    [] d = "SE" -> "NW"
    [] d = "S"  -> "N"
    [] d = "SW" -> "NE"
    [] d = "W"  -> "E"
    [] d = "NW" -> "SE"

half == <<"N", "NE", "E", "SE">>

\* DirectionIter: the cell states met from pos (included) walking in d, until
\* walk returns None.
RECURSIVE iter(_, _, _, _, _)
iter(bits, w, h, pos, d) ==
  IF pos = None THEN <<>>
  ELSE <<Cell(bits, h, pos)>> \o iter(bits, w, h, walk(d, pos, w, h), d)

(***************************************************************************)
(* Rule engine.                                                            *)
(***************************************************************************)
\* Faulty variant: the stored turn is returned for a finished game too.
current_turn_unchecked(t, res) == [ret |-> "Ok", out |-> t]

\* ConnectFour::turn: the stored turn, or the panic "game is already over"
\* of its assertion.
current_turn(t, res) ==
  IF res = "Ongoing" THEN [ret |-> "Ok", out |-> t]
  ELSE [ret |-> "panic", out |-> "game is already over"]

\* ConnectFour::possible_move
\* Faulty variant: the result of the game is not looked at.
possible_move_ignores_result(bits, w, h, res, column) ==
  Cell(bits, h, <<column, h - 1>>) = "Empty"

possible_move(bits, w, h, res, column) ==
  ~is_over(res) /\ Cell(bits, h, <<column, h - 1>>) = "Empty"

\* ConnectFour::free_cell: index of the first Empty state north of row 0;
\* -1 stands for the panic "move impossible".
\* Faulty variant: the position in the iteration is counted from 1.
RECURSIVE FindEmpty_from_one(_, _)
FindEmpty_from_one(states, k) ==
  IF k > Len(states) THEN -1
  ELSE IF states[k] = "Empty" THEN k
  ELSE FindEmpty_from_one(states, k + 1)

RECURSIVE FindEmpty(_, _)
FindEmpty(states, k) ==
  IF k > Len(states) THEN -1
  ELSE IF states[k] = "Empty" THEN k - 1
  ELSE FindEmpty(states, k + 1)

\* Faulty variant: the column is searched from the top row down.
free_cell_from_top(bits, w, h, column) ==
  IF \E r \in 0 .. h - 1 : Cell(bits, h, <<column, r>>) = "Empty"
    THEN CHOOSE r \in 0 .. h - 1 :
           /\ Cell(bits, h, <<column, r>>) = "Empty"
           /\ \A q \in r + 1 .. h - 1 : Cell(bits, h, <<column, q>>) # "Empty"
    ELSE -1

free_cell(bits, w, h, column) == FindEmpty(iter(bits, w, h, <<column, 0>>, "N"), 1)

\* Faulty variant: the check that the game is over is missing.
is_legal_move_no_over_check(bits, w, h, t, res, player, mov) ==
  IF mov >= w THEN "InvalidInput"
  ELSE IF t # player_from_id(player) THEN "InvalidInput"
  ELSE IF Cell(bits, h, <<mov, h - 1>>) = "Empty" THEN "Ok"
  ELSE "InvalidInput"

\* Faulty variant: the check of the side to move is missing.
is_legal_move_any_player(bits, w, h, t, res, player, mov) ==
  IF mov >= w THEN "InvalidInput"
  ELSE IF is_over(res) THEN "InvalidInput"
  ELSE IF Cell(bits, h, <<mov, h - 1>>) = "Empty" THEN "Ok"
  ELSE "InvalidInput"

\* Faulty variant: the bottom cell of the column is tested.
is_legal_move_bottom_cell(bits, w, h, t, res, player, mov) ==
  IF mov >= w THEN "InvalidInput"
  ELSE IF is_over(res) THEN "InvalidInput"
  ELSE IF t # player_from_id(player) THEN "InvalidInput"
  ELSE IF Cell(bits, h, <<mov, 0>>) = "Empty" THEN "Ok"
  ELSE "InvalidInput"

\* is_legal_move: "Ok" or the error kind.
is_legal_move(bits, w, h, t, res, player, mov) ==
  IF mov >= w THEN "InvalidInput"
  ELSE IF is_over(res) THEN "InvalidInput"
  ELSE IF t # player_from_id(player) THEN "InvalidInput"
  ELSE IF Cell(bits, h, <<mov, h - 1>>) = "Empty" THEN "Ok"
  ELSE "InvalidInput"

\* Faulty variant: the index is not compared with the limit.
RECURSIVE TakeWhileCount_unlimited(_, _, _, _, _)
TakeWhileCount_unlimited(states, k, off, lim, state) ==
  IF k > Len(states) THEN 0
  ELSE IF states[k] = state
    THEN 1 + TakeWhileCount_unlimited(states, k + 1, off, lim, state)
    ELSE 0

\* take_while(|(i, s)| i < lim && s == state).count() over the states from
\* sequence position k on, where the enumerate index of position k is k - off.
RECURSIVE TakeWhileCount(_, _, _, _, _)
TakeWhileCount(states, k, off, lim, state) ==
  IF k > Len(states) THEN 0
  ELSE IF k - off < lim /\ states[k] = state
    THEN 1 + TakeWhileCount(states, k + 1, off, lim, state)
    ELSE 0

\* Faulty variant: the run is counted in the half-direction only, not in
\* its inverse.
AxisCount_forward_only(bits, w, h, len, pos, state, direction) ==
  1 + TakeWhileCount(iter(bits, w, h, pos, direction), 2, 1, len, state)

\* One pass of the loop body of make_move for a half-direction: the combined
\* count of the run through pos.
AxisCount(bits, w, h, len, pos, state, direction) ==
  LET fwd == 1 + TakeWhileCount(iter(bits, w, h, pos, direction), 2, 1, len, state)
      missing == len - fwd
  IN fwd + TakeWhileCount(iter(bits, w, h, pos, inv(direction)), 2, 2, missing, state)

\* The for loop of make_move from position k of the order, given for each
\* direction whether its count reaches the win length: the loop breaks with a
\* win at the first such direction.
RECURSIVE WinLoop(_, _, _)
WinLoop(hit, order, k) ==
  IF k > Len(order) THEN FALSE
  ELSE IF hit[order[k]] THEN TRUE
  ELSE WinLoop(hit, order, k + 1)

\* The win scan of make_move over the directions in the given order.
WinScan(bits, w, h, len, pos, state, order) ==
  WinLoop([d \in Directions |-> AxisCount(bits, w, h, len, pos, state, d) >= len], order, 1)

\* The draw test of make_move: every state of the top row is not Empty.
TopRowFull(bits, w, h) ==
  LET row == iter(bits, w, h, <<0, h - 1>>, "E")
  IN \A k \in 1 .. Len(row) : row[k] # "Empty"

\* Faulty variant: the draw test is missing.
MoveResult_no_draw(res, won, full) == IF won THEN "Winner" ELSE res

\* The result make_move leaves: Winner when the scan finds a win, then Draw
\* when the top row is full.
MoveResult(res, won, full) ==
  LET r1 == IF won THEN "Winner" ELSE res
  IN IF full THEN "Draw" ELSE r1

\* Faulty variant: the turn passes to the other player after a final move
\* too.
make_move_always_passes_turn(bits, w, h, len, t, res, player, mov) ==
  LET pos == <<mov, free_cell(bits, w, h, mov)>>
      state == from_player_id(player)
      b1 == SetCell(bits, h, pos, state)
      r2 == MoveResult(res, WinScan(b1, w, h, len, pos, state, half), TopRowFull(b1, w, h))
  IN <<b1, ~t, r2>>

\* Faulty variant: the turn never passes to the other player.
make_move_keeps_turn(bits, w, h, len, t, res, player, mov) ==
  LET pos == <<mov, free_cell(bits, w, h, mov)>>
      state == from_player_id(player)
      b1 == SetCell(bits, h, pos, state)
      r2 == MoveResult(res, WinScan(b1, w, h, len, pos, state, half), TopRowFull(b1, w, h))
  IN <<b1, t, r2>>

\* make_move: the new <<board, turn, result>>.
make_move(bits, w, h, len, t, res, player, mov) ==
  LET pos == <<mov, free_cell(bits, w, h, mov)>>
      state == from_player_id(player)
      b1 == SetCell(bits, h, pos, state)
      r2 == MoveResult(res, WinScan(b1, w, h, len, pos, state, half), TopRowFull(b1, w, h))
  IN <<b1, IF ~is_over(r2) THEN ~t ELSE t, r2>>

\* get_results / players_to_move: the set of players pushed.
\* Faulty variant: a drawn game reports the owner of turn as well.
get_results_any_end(t, res) == IF is_over(res) THEN {player_to_id(t)} ELSE {}

get_results(t, res) == IF res = "Winner" THEN {player_to_id(t)} ELSE {}

\* Faulty variant: the owner of turn is reported in a finished game too.
players_to_move_when_over(t, res) == {player_to_id(t)}

players_to_move(t, res) == IF ~is_over(res) THEN {player_to_id(t)} ELSE {}

\* Faulty variant: the loop ends one column early.
RECURSIVE ConcreteMovesFrom_stops_early(_, _, _, _)
ConcreteMovesFrom_stops_early(bits, w, h, column) ==
  IF column + 1 >= w THEN <<>>
  ELSE (IF Cell(bits, h, <<column, h - 1>>) # "Empty" THEN <<>> ELSE <<column>>)
       \o ConcreteMovesFrom_stops_early(bits, w, h, column + 1)

\* The loop of get_concrete_moves over the columns from `column` on.
RECURSIVE ConcreteMovesFrom(_, _, _, _)
ConcreteMovesFrom(bits, w, h, column) ==
  IF column >= w THEN <<>>
  ELSE (IF Cell(bits, h, <<column, h - 1>>) # "Empty" THEN <<>> ELSE <<column>>)
       \o ConcreteMovesFrom(bits, w, h, column + 1)

\* Faulty variant: the moves are listed for the player not to move as well.
get_concrete_moves_any_player(bits, w, h, t, res, player) ==
  IF is_over(res) THEN <<>> ELSE ConcreteMovesFrom(bits, w, h, 0)

\* The list of moves pushed for `player`.
get_concrete_moves(bits, w, h, t, res, player) ==
  IF is_over(res) \/ player_from_id(player) # t THEN <<>>
  ELSE ConcreteMovesFrom(bits, w, h, 0)

(***************************************************************************)
(* State codec.  A text is a sequence of one-character strings.            *)
(***************************************************************************)
Whitespace == {" "}

\* char::is_uppercase on the characters of the model's alphabet.
is_uppercase(c) == c \in {"X", "O", "F"}

\* Faulty variant: the comparison is case-sensitive.
eq_ignore_ascii_case_exact(c, letter) == c = letter

\* char::eq_ignore_ascii_case against 'X' / 'O'.
eq_ignore_ascii_case(c, letter) ==
  \/ c = letter
  \/ letter = "X" /\ c = "x"
  \/ letter = "O" /\ c = "o"

RECURSIVE trim_start(_)
trim_start(s) ==
  IF s # <<>> /\ Head(s) \in Whitespace THEN trim_start(Tail(s)) ELSE s

RECURSIVE trim_end(_)
trim_end(s) ==
  IF s # <<>> /\ s[Len(s)] \in Whitespace THEN trim_end(SubSeq(s, 1, Len(s) - 1)) ELSE s

trim(s) == trim_end(trim_start(s))

\* Faulty variant: the result is not reset.
reset_keeps_result(bits, t, res) == <<BitVecReset(bits), FALSE, res>>

\* Faulty variant: the board is not cleared.
reset_keeps_board(bits, t, res) == <<bits, FALSE, "Ongoing">>

\* GameData::reset
reset(bits, t, res) == <<BitVecReset(bits), FALSE, "Ongoing">>

\* The character loop of import_state from position k of s with the cursor
\* at pos: the board written so far, whether an error was returned, and the
\* position after the consumed '#' (or past the end).
RECURSIVE ScanBody(_, _, _, _, _, _)
ScanBody(bits, w, h, s, k, pos) ==
  IF k > Len(s) THEN [board |-> bits, err |-> FALSE, next |-> k]
  ELSE IF s[k] = "#" THEN [board |-> bits, err |-> FALSE, next |-> k + 1]
  ELSE IF s[k] = "/" THEN
    IF pos[1] + 1 >= w THEN [board |-> bits, err |-> TRUE, next |-> k]
    ELSE ScanBody(bits, w, h, s, k + 1, <<pos[1] + 1, 0>>)
  ELSE IF pos[2] >= h THEN [board |-> bits, err |-> TRUE, next |-> k]
  ELSE IF eq_ignore_ascii_case(s[k], "X") THEN
    ScanBody(SetCell(bits, h, pos, "X"), w, h, s, k + 1, <<pos[1], pos[2] + 1>>)
  ELSE IF eq_ignore_ascii_case(s[k], "O") THEN
    ScanBody(SetCell(bits, h, pos, "O"), w, h, s, k + 1, <<pos[1], pos[2] + 1>>)
  ELSE [board |-> bits, err |-> TRUE, next |-> k]

\* The trailer of import_state: the assignments it makes to the turn and
\* the result it is given, or the error for an unknown player string.
ImportTrailer(bits, t, res, player) ==
  LET isX == Len(player) = 1 /\ eq_ignore_ascii_case(player[1], "X")
      isO == Len(player) = 1 /\ eq_ignore_ascii_case(player[1], "O")
      isDash == player = <<"-">>
      t1 == IF isX THEN FALSE ELSE IF isO THEN TRUE ELSE t
      r1 == IF isDash THEN "Draw" ELSE res
      r2 == IF \A k \in 1 .. Len(player) : is_uppercase(player[k]) THEN "Winner" ELSE r1
  IN IF isX \/ isO \/ isDash
       THEN [board |-> bits, turn |-> t1, result |-> r2, ret |-> "Ok"]
       ELSE [board |-> bits, turn |-> t, result |-> res, ret |-> "InvalidInput"]

\* import_state: the data it leaves and what it returns.
import_state(bits, t, res, w, h, string) ==
  LET d0 == reset(bits, t, res)
  IN IF string = NoText
       THEN [board |-> d0[1], turn |-> d0[2], result |-> d0[3], ret |-> "Ok"]
       ELSE LET s == trim_start(string)
                body == ScanBody(d0[1], w, h, s, 1, <<0, 0>>)
            IN IF body.err
                 THEN [board |-> body.board, turn |-> d0[2], result |-> d0[3],
                       ret |-> "InvalidInput"]
                 ELSE ImportTrailer(body.board, d0[2], d0[3],
                                    trim(SubSeq(s, body.next, Len(s))))

\* The inner loop of export_state: the stones of a column up to the first
\* Empty state.
RECURSIVE ExportColumn(_, _)
ExportColumn(states, k) ==
  IF k > Len(states) \/ states[k] = "Empty" THEN <<>>
  ELSE <<states[k]>> \o ExportColumn(states, k + 1)

\* Faulty variant: a separator follows every column, the last one included.
RECURSIVE ExportBody_trailing_separator(_, _, _, _)
ExportBody_trailing_separator(bits, w, h, x) ==
  IF x >= w THEN <<>>
  ELSE ExportColumn(iter(bits, w, h, <<x, 0>>, "N"), 1)
       \o <<"/">>
       \o ExportBody_trailing_separator(bits, w, h, x + 1)

RECURSIVE ExportBody(_, _, _, _)
ExportBody(bits, w, h, x) ==
  IF x >= w THEN <<>>
  ELSE (IF x # 0 THEN <<"/">> ELSE <<>>)
       \o ExportColumn(iter(bits, w, h, <<x, 0>>, "N"), 1)
       \o ExportBody(bits, w, h, x + 1)

\* Faulty variant: a winner is exported in lower case.
ExportTrailer_lower_case(t, res) ==
  IF res = "Draw" THEN "-" ELSE IF t THEN "o" ELSE "x"

ExportTrailer(t, res) ==
  CASE res = "Ongoing" /\ ~t -> "x"
    [] res = "Ongoing" /\ t  -> "o"
    [] res = "Winner" /\ ~t  -> "X"
    [] res = "Winner" /\ t   -> "O"
    [] res = "Draw"          -> "-"

export_state(bits, w, h, t, res) ==
  ExportBody(bits, w, h, 0) \o <<"#">> \o <<ExportTrailer(t, res)>>

(***************************************************************************)
(* Construction.                                                           *)
(***************************************************************************)
\* The range checks of GameOptions::new on the parsed numbers.
\* Faulty variant: a length of 0 passes.
OptionsCheck_allows_zero_length(w, h, len) ==
  IF w < 1 \/ h < 1 THEN "InvalidOptions"
  ELSE IF len > w /\ len > h THEN "InvalidOptions"
  ELSE "Ok"

OptionsCheck(w, h, len) ==
  IF w < 1 \/ h < 1 \/ len < 1 THEN "InvalidOptions"
  ELSE IF len > w /\ len > h THEN "InvalidOptions"
  ELSE "Ok"

\* GameData::new
GameDataNew(w, h) == <<BitVecNew(2 * w * h), FALSE, "Ongoing">>

\* char::is_ascii_digit and the decimal digits.
DigitChars == <<"0", "1", "2", "3", "4", "5", "6", "7", "8", "9">>
is_ascii_digit(c) == \E d \in 1 .. 10 : DigitChars[d] = c
DigitValue(c) == (CHOOSE d \in 1 .. 10 : DigitChars[d] = c) - 1

\* str::split(|c| !c.is_ascii_digit()): every non-digit character ends a
\* piece, so that two adjacent ones enclose an empty piece.
RECURSIVE SplitFrom(_, _, _, _)
SplitFrom(s, k, piece, pieces) ==
  IF k > Len(s) THEN Append(pieces, piece)
  ELSE IF is_ascii_digit(s[k]) THEN SplitFrom(s, k + 1, Append(piece, s[k]), pieces)
  ELSE SplitFrom(s, k + 1, <<>>, Append(pieces, piece))

\* str::parse::<u8> of a piece of digits; -1 stands for the error (an empty
\* piece, or a value that does not fit in eight bits).
RECURSIVE ParseDigits(_, _, _)
ParseDigits(piece, k, acc) ==
  IF k > Len(piece) THEN acc
  ELSE IF acc * 10 + DigitValue(piece[k]) > 255 THEN -1
  ELSE ParseDigits(piece, k + 1, acc * 10 + DigitValue(piece[k]))

\* parse(name, numbers.next()) on the n-th piece; -1 when the piece is
\* missing or does not parse.
parse(pieces, n) ==
  IF n > Len(pieces) THEN -1
  ELSE IF pieces[n] = <<>> THEN -1
  ELSE ParseDigits(pieces[n], 1, 0)

NoOptions == [ret |-> "InvalidInput", width |-> 0, height |-> 0, length |-> 0]

\* Faulty variant: text after the third number is not looked at.
GameOptionsNew_ignores_excess(text) ==
  LET numbers == SplitFrom(trim(text), 1, <<>>, <<>>)
      w == parse(numbers, 1)
      h == parse(numbers, 2)
      len == parse(numbers, 3)
  IN IF w = -1 \/ h = -1 \/ len = -1 THEN NoOptions
     ELSE IF OptionsCheck(w, h, len) # "Ok"
       THEN [NoOptions EXCEPT !.ret = OptionsCheck(w, h, len)]
     ELSE [ret |-> "Ok", width |-> w, height |-> h, length |-> len]

\* GameOptions::new.
GameOptionsNew(text) ==
  LET numbers == SplitFrom(trim(text), 1, <<>>, <<>>)
      w == parse(numbers, 1)
      h == parse(numbers, 2)
      len == parse(numbers, 3)
  IN IF w = -1 THEN NoOptions
     ELSE IF h = -1 THEN NoOptions
     ELSE IF len = -1 THEN NoOptions
     ELSE IF Len(numbers) > 3 THEN NoOptions
     ELSE IF OptionsCheck(w, h, len) # "Ok"
       THEN [NoOptions EXCEPT !.ret = OptionsCheck(w, h, len)]
     ELSE [ret |-> "Ok", width |-> w, height |-> h, length |-> len]

\* GameOptions::default.
GameOptionsDefault ==
  [ret |-> "Ok", width |-> DEFAULT_WIDTH, height |-> DEFAULT_HEIGHT, length |-> DEFAULT_LENGTH]

\* The decimal text of an eight-bit number ({} of write!).
RECURSIVE Decimal(_)
Decimal(n) ==
  IF n < 10 THEN <<DigitChars[n + 1]>>
  ELSE Decimal(n \div 10) \o <<DigitChars[(n % 10) + 1]>>

\* Faulty variant: height is written before width.
export_options_height_first(w, h, len) ==
  Decimal(h) \o <<" ">> \o Decimal(w) \o <<" ">> \o Decimal(len)

\* ConnectFour::export_options.
export_options(w, h, len) ==
  Decimal(w) \o <<" ">> \o Decimal(h) \o <<" ">> \o Decimal(len)

\* GameOptions::col_chars.
col_chars(w) == IF w <= 10 THEN 1 ELSE IF w <= 100 THEN 2 ELSE 3

\* Display for State with a width: the character of the state, repeated.
RECURSIVE Repeat(_, _)
Repeat(c, n) == IF n <= 0 THEN <<>> ELSE <<c>> \o Repeat(c, n - 1)
StateChar(state) == IF state = "Empty" THEN " " ELSE state

\* One line of print: the states of a row from column 0 eastwards.
RECURSIVE PrintRow(_, _, _)
PrintRow(states, k, n) ==
  IF k > Len(states) THEN <<"|", "\n">>
  ELSE <<"|">> \o Repeat(StateChar(states[k]), n) \o PrintRow(states, k + 1, n)

\* The lines of the rows y-1 down to 0.
RECURSIVE PrintRows(_, _, _, _)
PrintRows(bits, w, h, y) ==
  IF y <= 0 THEN <<>>
  ELSE PrintRow(iter(bits, w, h, <<0, y - 1>>, "E"), 1, col_chars(w))
       \o PrintRows(bits, w, h, y - 1)

\* The line of the column indices, right-aligned, from column x on.
RECURSIVE PrintIndices(_, _)
PrintIndices(w, x) ==
  IF x >= w THEN <<" ", "\n">>
  ELSE <<" ">> \o Repeat(" ", col_chars(w) - Len(Decimal(x))) \o Decimal(x)
       \o PrintIndices(w, x + 1)

\* ConnectFour::print.
print(bits, w, h) == PrintRows(bits, w, h, h) \o PrintIndices(w, 0)

\* Faulty variant: the result of the other game is not copied.
GameDataCopyFrom_keeps_result(d, other) ==
  <<BitVecCopyFrom(d[1], other[1]), other[2], d[3]>>

\* GameData::copy_from on <<board, turn, result>>.
GameDataCopyFrom(d, other) ==
  <<BitVecCopyFrom(d[1], other[1]), other[2], other[3]>>

\* ConnectFour::copy_from for two games of equal options: the data of self
\* and of other after the call.
copy_from(d, other) ==
  [self |-> GameDataCopyFrom(d, other), other |-> other, ret |-> "Ok"]

(***************************************************************************)
(* Inputs.                                                                 *)
(***************************************************************************)
Players == {1, 2}

\* Stacks of stones of a column, bottom to top.
Stacks(h) == UNION {[1 .. n -> {"X", "O"}] : n \in 0 .. h}

RECURSIVE JoinColumns(_, _, _)
JoinColumns(cols, w, x) ==
  IF x >= w THEN <<>>
  ELSE (IF x # 0 THEN <<"/">> ELSE <<>>) \o cols[x] \o JoinColumns(cols, w, x + 1)

RECURSIVE Stones(_, _, _)
Stones(cols, w, x) == IF x >= w THEN 0 ELSE Len(cols[x]) + Stones(cols, w, x + 1)

\* State texts given at construction: no text, and every layout of stacks of
\* at most MaxStones stones with either player to move.
CreateTexts(w, h) ==
  {NoText} \cup
  {JoinColumns(cols, w, 0) \o <<"#", t>> :
     cols \in {f \in [0 .. w - 1 -> Stacks(h)] : Stones(f, w, 0) <= MaxStones},
     t \in {"x", "o"}}

\* State texts given to import_state on an existing game.
ImportTexts ==
  { NoText,
    <<"#", "o">>, <<"#", "X">>, <<"#", "-">>,
    <<"x", "#", "o">>, <<"o", "/", "X", "#", "O">>,
    <<"/", "X", "#", "-">>, <<" ", "X", "#", "x">>, <<"O", "#", " ", "o", " ">>,
    <<"X", "F", "#", "x">>, <<"X", "#", "F">>, <<"X">>, <<"X", "#", "x", "x">>,
    <<"X", "/", "/", "/", "/", "/", "#", "x">>,
    <<"O", "X", "X", "X", "X", "X", "#", "-">> }

(***************************************************************************)
(* The state machine.                                                      *)
(***************************************************************************)
\* The last call made on the game: the operation, its arguments, what it
\* returned, and the result the game had when it was called.
Last(op, player, column, ret, text, prev) ==
  [op |-> op, player |-> player, column |-> column, ret |-> ret, text |-> text,
   prev |-> prev]

\* ConnectFour::create with an options triple and a state text that it
\* accepts.
Init ==
  \E w \in 0 .. MaxWidth, h \in 0 .. MaxHeight, len \in 0 .. MaxLength :
    /\ w * h <= MaxCells
    /\ OptionsCheck(w, h, len) = "Ok"
    /\ \E text \in CreateTexts(w, h) :
         LET d == GameDataNew(w, h)
             got == import_state(d[1], d[2], d[3], w, h, text)
         IN /\ got.ret = "Ok"
            /\ width = w
            /\ height = h
            /\ length = len
            /\ board = got.board
            /\ turn = got.turn
            /\ result = got.result
            /\ last = Last("create", 0, 0, "Ok", text, "Ongoing")

\* import_state on the existing game.
ImportState(text) ==
  LET got == import_state(board, turn, result, width, height, text)
  IN /\ board' = got.board
     /\ turn' = got.turn
     /\ result' = got.result
     /\ last' = Last("import_state", 0, 0, got.ret, text, result)
     /\ UNCHANGED options

\* export_state followed by import_state of the exported text.
ReImport ==
  LET text == export_state(board, width, height, turn, result)
      got == import_state(board, turn, result, width, height, text)
  IN /\ board' = got.board
     /\ turn' = got.turn
     /\ result' = got.result
     /\ last' = Last("reimport", 0, 0, got.ret, text, result)
     /\ UNCHANGED options

\* A move the referee accepted: is_legal_move returned Ok, then make_move.
MakeMove(player, mov) ==
  /\ is_legal_move(board, width, height, turn, result, player, mov) = "Ok"
  /\ LET d == make_move(board, width, height, length, turn, result, player, mov)
     IN /\ board' = d[1]
        /\ turn' = d[2]
        /\ result' = d[3]
  /\ last' = Last("make_move", player, mov, "Ok", <<>>, result)
  /\ UNCHANGED options

\* A move the referee rejected: is_legal_move returned an error and
\* make_move is not called.
RejectMove(player, mov) ==
  /\ is_legal_move(board, width, height, turn, result, player, mov) # "Ok"
  /\ last' = Last("is_legal_move", 0, 0,
                  is_legal_move(board, width, height, turn, result, player, mov),
                  <<>>, result)
  /\ UNCHANGED <<options, data>>

Next ==
  \/ \E text \in ImportTexts : ImportState(text)
  \/ ReImport
  \/ \E player \in Players, mov \in 0 .. width : MakeMove(player, mov)
  \/ \E player \in Players, mov \in 0 .. width : RejectMove(player, mov)

Spec == Init /\ [][Next]_vars

(***************************************************************************)
(* Vocabulary of the properties, stated on the cells of the board and not  *)
(* on the walker.                                                          *)
(***************************************************************************)
Columns == 0 .. width - 1
Rows == 0 .. height - 1

OwnerOf(player) == IF player = 1 THEN "X" ELSE "O"

\* The lowest Empty row of a column that has one.
LowestEmpty(bits, h, c) ==
  CHOOSE r \in 0 .. h - 1 :
    /\ Cell(bits, h, <<c, r>>) = "Empty"
    /\ \A q \in 0 .. r - 1 : Cell(bits, h, <<c, q>>) # "Empty"

\* The number of stones of a column that is a stack without gaps.
StackHeight(bits, h, c) == Cardinality({r \in 0 .. h - 1 : Cell(bits, h, <<c, r>>) # "Empty"})

\* Cells owned by st that follow <<c, r>> contiguously in the step <<dc, dr>>.
RECURSIVE RunFrom(_, _, _, _, _, _, _, _)
RunFrom(bits, w, h, c, r, dc, dr, st) ==
  IF /\ c + dc \in 0 .. w - 1
     /\ r + dr \in 0 .. h - 1
     /\ Cell(bits, h, <<c + dc, r + dr>>) = st
    THEN 1 + RunFrom(bits, w, h, c + dc, r + dr, dc, dr, st)
    ELSE 0

\* Vertical, rising diagonal, horizontal, falling diagonal.
Axes == {<<0, 1>>, <<1, 1>>, <<1, 0>>, <<1, -1>>}

\* Length of the maximal contiguous run of st through pos along axis a.
AxisRun(bits, w, h, pos, a, st) ==
  1 + RunFrom(bits, w, h, pos[1], pos[2], a[1], a[2], st)
    + RunFrom(bits, w, h, pos[1], pos[2], -a[1], -a[2], st)

\* pos lies in a run of at least len cells of st along some axis.
InRun(bits, w, h, len, pos, st) ==
  \E a \in Axes : AxisRun(bits, w, h, pos, a, st) >= len

TopRowOccupied(bits, w, h) ==
  \A c \in 0 .. w - 1 : Cell(bits, h, <<c, h - 1>>) # "Empty"

\* In a state that make_move has just left: the cell of the new stone.
LastPos == <<last.column, StackHeight(board, height, last.column) - 1>>

(***************************************************************************)
(* Properties.                                                             *)
(***************************************************************************)
\* C1: a legal make_move whose new stone lies in a same-owner run of at
\* least `length` cells along some axis leaves Result = Winner, get_results
\* reports the mover and is_legal_move rejects every further move; a Draw is
\* declared only when the move completed no such run.
C1_WinningMoveWins ==
  [][last'.op = "make_move" =>
       LET pos == <<last'.column, LowestEmpty(board, height, last'.column)>>
           run == InRun(board', width, height, length, pos, OwnerOf(last'.player))
       IN /\ run =>
               /\ result' = "Winner"
               /\ get_results(turn', result') = {last'.player}
               /\ \A p \in Players, c \in 0 .. width :
                    is_legal_move(board', width, height, turn', result', p, c) # "Ok"
          /\ result' = "Draw" => ~run]_vars

\* C2: an import_state that returns InvalidInput leaves the board, the turn
\* and the result as they were before the call.
C2_FailedImportKeepsState ==
  [][(last'.op = "import_state" /\ last'.ret = "InvalidInput") => data' = data]_vars

C4_LegalMoveIff ==
  \A p \in Players, c \in 0 .. width + 1 :
    is_legal_move(board, width, height, turn, result, p, c) =
      IF /\ c < width
         /\ result = "Ongoing"
         /\ p = (IF turn THEN 2 ELSE 1)
         /\ ~board[2 * (c * height + height - 1)]
        THEN "Ok"
        ELSE "InvalidInput"

\* C4 witness: an Ongoing game with a full and a free column in which a move
\* was just rejected.
C4_Witness ==
  /\ last.op = "is_legal_move"
  /\ last.ret = "InvalidInput"
  /\ result = "Ongoing"
  /\ \E c \in Columns : Cell(board, height, <<c, height - 1>>) # "Empty"
  /\ \E c \in Columns : Cell(board, height, <<c, height - 1>>) = "Empty"

\* C5: a legal make_move that fills the top row and completes no run of
\* `length` sets Result = Draw; then get_results reports no winner and
\* players_to_move reports nobody.
C5_FullTopRowIsDraw ==
  [][last'.op = "make_move" =>
       LET pos == <<last'.column, LowestEmpty(board, height, last'.column)>>
       IN (/\ TopRowOccupied(board', width, height)
           /\ ~InRun(board', width, height, length, pos, OwnerOf(last'.player)))
          => /\ result' = "Draw"
             /\ get_results(turn', result') = {}
             /\ players_to_move(turn', result') = {}]_vars

\* C5 witness: a move filled the top row of a board of several columns
\* without completing a run.
C5_Witness ==
  /\ last.op = "make_move"
  /\ width >= 2
  /\ TopRowOccupied(board, width, height)
  /\ ~InRun(board, width, height, length, LastPos, OwnerOf(last.player))
  /\ result = "Draw"

\* The orders in which the four half-directions can be iterated.
HalfOrders ==
  {o \in [1 .. 4 -> {half[k] : k \in 1 .. 4}] : \A i, j \in 1 .. 4 : o[i] = o[j] => i = j}

\* C6: for a legal move the win scan reports a win exactly when, on some
\* axis, the maximal contiguous same-owner run through the new stone has at
\* least `length` cells, whatever the order of the four half-directions.
C6_WinScanIffRun ==
  [][last'.op = "make_move" =>
       LET pos == <<last'.column, LowestEmpty(board, height, last'.column)>>
           st == OwnerOf(last'.player)
       IN \A v \in {[N |-> AxisCount(board', width, height, length, pos, st, "N") >= length,
                     NE |-> AxisCount(board', width, height, length, pos, st, "NE") >= length,
                     E |-> AxisCount(board', width, height, length, pos, st, "E") >= length,
                     SE |-> AxisCount(board', width, height, length, pos, st, "SE") >= length,
                     run |-> InRun(board', width, height, length, pos, st)]} :
            /\ WinScan(board', width, height, length, pos, st, half) <=> v.run
            /\ \A o \in HalfOrders : WinLoop(v, o, 1) <=> v.run]_vars

\* C6 witness: the new stone is in the middle of a diagonal run of three and
\* the scan reports the win.
C6_Witness ==
  /\ last.op = "make_move"
  /\ length = 3
  /\ \E a \in {<<1, 1>>, <<1, -1>>} :
       /\ RunFrom(board, width, height, LastPos[1], LastPos[2], a[1], a[2],
                  OwnerOf(last.player)) = 1
       /\ RunFrom(board, width, height, LastPos[1], LastPos[2], -a[1], -a[2],
                  OwnerOf(last.player)) = 1
  /\ WinScan(board, width, height, length, LastPos, OwnerOf(last.player), half)
  /\ result = "Winner"

\* C7: make_move on a legal move writes the mover's stone at the lowest
\* Empty row of the column, changes no other cell and no option, and flips
\* the turn exactly when the resulting result is Ongoing.
C7_MoveFrame ==
  [][last'.op = "make_move" =>
       LET pos == <<last'.column, LowestEmpty(board, height, last'.column)>>
       IN /\ Cell(board', height, pos) = OwnerOf(last'.player)
          /\ DOMAIN board' = DOMAIN board
          /\ \A c \in Columns, r \in Rows :
               <<c, r>> # pos => Cell(board', height, <<c, r>>) = Cell(board, height, <<c, r>>)
          /\ options' = options
          /\ (turn' # turn) <=> (result' = "Ongoing")
          /\ result' # "Ongoing" => player_to_id(turn') = last'.player]_vars

\* C7 witness: a stone was stacked on another one and the game goes on with
\* the other player to move.
C7_Witness ==
  /\ last.op = "make_move"
  /\ LastPos[2] >= 1
  /\ result = "Ongoing"
  /\ player_to_id(turn) # last.player

\* C8: importing the exported text of a state succeeds and gives the same
\* cells, the same side to move and the same outcome, and exporting again
\* gives the same text.
C8_RoundTrip ==
  [][last'.op = "reimport" =>
       /\ last'.ret = "Ok"
       /\ \A c \in Columns, r \in Rows :
            Cell(board', height, <<c, r>>) = Cell(board, height, <<c, r>>)
       /\ players_to_move(turn', result') = players_to_move(turn, result)
       /\ get_results(turn', result') = get_results(turn, result)
       /\ (result' = "Draw") <=> (result = "Draw")
       /\ export_state(board', width, height, turn', result') = last'.text]_vars

\* C8 witness: the round trip of a game PlayerB has won, with stones in
\* columns of different heights.
C8_Witness ==
  /\ last.op = "reimport"
  /\ last.ret = "Ok"
  /\ result = "Winner"
  /\ get_results(turn, result) = {2}
  /\ \E c, d \in Columns :
       /\ StackHeight(board, height, c) >= 2
       /\ StackHeight(board, height, d) = 0
       /\ c < d

\* C9: import_state(None) succeeds and leaves an all-Empty board of
\* 2 * width * height bits, PlayerA to move and Result = Ongoing.
C9_ImportNoneResets ==
  (last.op \in {"create", "import_state"} /\ last.text = NoText) =>
    /\ last.ret = "Ok"
    /\ DOMAIN board = 0 .. 2 * width * height - 1
    /\ \A i \in DOMAIN board : ~board[i]
    /\ turn = FALSE
    /\ result = "Ongoing"

\* C9 witness: import_state(None) was called on a finished game.
C9_Witness ==
  /\ last.op = "import_state"
  /\ last.text = NoText
  /\ last.prev = "Winner"

\* The text of an accepted import, read without the codec: its first
\* character that is no whitespace, its '#', and for each body character the
\* separators before it.
TextStart(s) == CHOOSE i \in 1 .. Len(s) : s[i] # " " /\ \A j \in 1 .. i - 1 : s[j] = " "
TextHash(s) == CHOOSE i \in 1 .. Len(s) : s[i] = "#" /\ \A j \in 1 .. i - 1 : s[j] # "#"
StoneIndices(s) == {i \in TextStart(s) .. TextHash(s) - 1 : s[i] # "/"}
GroupOf(s, i) == Cardinality({j \in 1 .. i - 1 : s[j] = "/"})
PlaceInGroup(s, i) ==
  Cardinality({j \in TextStart(s) .. i - 1 : s[j] # "/" /\ GroupOf(s, j) = GroupOf(s, i)})
StoneOf(ch) == IF ch \in {"X", "x"} THEN "X" ELSE "O"
TrailerOf(s) == s[CHOOSE i \in TextHash(s) + 1 .. Len(s) : s[i] # " "]

\* C10: a successful import_state(text) sets cell (k, j) from the j-th stone
\* character of the k-th group, leaves every other cell Empty and sets the
\* turn and the result from the trailer, whatever the state was before and
\* whatever the stones on the board are.
C10_ImportLayout ==
  (last.op \in {"create", "import_state"} /\ last.ret = "Ok" /\ last.text # NoText) =>
    LET s == last.text
        tr == TrailerOf(s)
    IN /\ \A c \in Columns, r \in Rows :
            Cell(board, height, <<c, r>>) =
              IF \E i \in StoneIndices(s) : GroupOf(s, i) = c /\ PlaceInGroup(s, i) = r
                THEN StoneOf(s[CHOOSE i \in StoneIndices(s) :
                                 GroupOf(s, i) = c /\ PlaceInGroup(s, i) = r])
                ELSE "Empty"
       /\ turn = (tr \in {"o", "O"})
       /\ result = (CASE tr \in {"x", "o"} -> "Ongoing"
                      [] tr \in {"X", "O"} -> "Winner"
                      [] tr = "-" -> "Draw")

\* C10 witness: a finished game imported a text with a lower-case stone, one
\* stone each and a recorded winner that has no run.
C10_Witness ==
  /\ last.op = "import_state"
  /\ last.ret = "Ok"
  /\ last.text = <<"o", "/", "X", "#", "O">>
  /\ last.prev = "Draw"
  /\ length >= 2
  /\ result = "Winner"

(***************************************************************************)
(* import_state as a function of the text: a new game of small dimensions  *)
(* imports every text made of a short body and one of a set of endings.    *)
(***************************************************************************)
\* Largest width and height of the games that import, and longest body.
CodecMaxWidth == 2
CodecMaxHeight == 2
MaxBodyLen == 3

BodyAlphabet == {"X", "o", "/", " ", "F"}

TextEndings ==
  { <<>>, <<"#">>, <<"#", "x">>, <<"#", "X">>, <<"#", "o">>, <<"#", "O">>, <<"#", "-">>,
    <<"#", " ", "x", " ">>, <<"#", "F">>, <<"#", "x", "x">>, <<"#", "x", "#">>,
    <<"#", "X", "O">> }

CodecTexts ==
  {b \o e : b \in UNION {[1 .. n -> BodyAlphabet] : n \in 0 .. MaxBodyLen}, e \in TextEndings}

\* ConnectFour::create without a state text.
InitCodec ==
  \E w \in 1 .. CodecMaxWidth, h \in 1 .. CodecMaxHeight :
    LET d == GameDataNew(w, h)
        got == import_state(d[1], d[2], d[3], w, h, NoText)
    IN /\ OptionsCheck(w, h, 1) = "Ok"
       /\ width = w
       /\ height = h
       /\ length = 1
       /\ board = got.board
       /\ turn = got.turn
       /\ result = got.result
       /\ last = Last("create", 0, 0, got.ret, NoText, "Ongoing")

\* The first import_state on the new game.
ImportFirst(text) == last.op = "create" /\ ImportState(text)

NextCodec == \E text \in CodecTexts : ImportFirst(text)

SpecCodec == InitCodec /\ [][NextCodec]_vars

\* A state text read without the codec: the place of its first '#' (past the
\* end when it has none), its leading whitespace, and what follows the '#'
\* without the whitespace at both ends.
HashPlace(s) ==
  IF \E i \in 1 .. Len(s) : s[i] = "#"
    THEN CHOOSE i \in 1 .. Len(s) : s[i] = "#" /\ \A j \in 1 .. i - 1 : s[j] # "#"
    ELSE Len(s) + 1
LeadingSpaces(s) ==
  Cardinality({i \in 1 .. Len(s) : \A j \in 1 .. i : s[j] = " "})
AfterHash(s) ==
  LET inked == {i \in HashPlace(s) + 1 .. Len(s) : s[i] # " "}
  IN IF inked = {} THEN <<>>
     ELSE LET lo == CHOOSE i \in inked : \A j \in inked : i <= j
              hi == CHOOSE i \in inked : \A j \in inked : i >= j
          IN [k \in 1 .. hi - lo + 1 |-> s[lo + k - 1]]

\* The four reasons for which a text whose body starts at index `from` is
\* rejected by a game of width w and height h.
Rejected(s, from, w, h) ==
  LET body == from .. HashPlace(s) - 1
  IN \/ Cardinality({i \in body : s[i] = "/"}) >= w
     \/ \E g \in 0 .. Len(s) :
          Cardinality({i \in body : s[i] \in {"X", "x", "O", "o"} /\ GroupOf(s, i) = g}) > h
     \/ \E i \in body : s[i] \notin {"X", "x", "O", "o", "/"}
     \/ AfterHash(s) \notin {<<"x">>, <<"X">>, <<"o">>, <<"O">>, <<"-">>}

\* C11 as stated: import_state(Some(text)) returns InvalidInput exactly when
\* the body before '#' has `width` or more separators, or a group of more
\* than `height` stones, or a character that is not X/x/O/o, or the trimmed
\* text after '#' is not one of x, X, o, O, -.
C11_ImportErrorIffRawBody ==
  (last.op = "import_state" /\ last.text # NoText) =>
    ((last.ret = "InvalidInput") <=> Rejected(last.text, 1, width, height))

\* C11 as amended: the same, for the body that remains once the leading
\* whitespace of the text is skipped.
C11_ImportErrorIff ==
  (last.op = "import_state" /\ last.text # NoText) =>
    /\ last.ret \in {"Ok", "InvalidInput"}
    /\ (last.ret = "InvalidInput")
         <=> Rejected(last.text, LeadingSpaces(last.text) + 1, width, height)

\* C11 witness: a text with leading whitespace rejected only for a group of
\* two stones in a game of height one.
C11_Witness ==
  /\ last.op = "import_state"
  /\ last.text = <<" ", "X", "o", "#", "x">>
  /\ height = 1
  /\ last.ret = "InvalidInput"

(***************************************************************************)
(* Export and queries of the current game.                                 *)
(***************************************************************************)
\* The number of cells of column c below its first Empty cell.
RunUp(bits, h, c) ==
  IF \E r \in 0 .. h - 1 : Cell(bits, h, <<c, r>>) = "Empty"
    THEN LowestEmpty(bits, h, c)
    ELSE h

\* The index in the exported text of the stone of row 0 of column c.
PlaceOf(bits, h, c) ==
  1 + c + Cardinality({p \in (0 .. c - 1) \X (0 .. h - 1) : p[2] < RunUp(bits, h, p[1])})

\* C12: the exported text holds, column after column, the stones of the
\* column from row 0 up to its first Empty cell as X or O, one '/' before
\* every column but the first (width-1 in all), then '#', then one trailer
\* character: x/o for PlayerA/PlayerB to move while Ongoing, X/O for a Winner
\* with turn PlayerA/PlayerB, '-' for a Draw whatever the turn.
C12_ExportFormat ==
  LET e == export_state(board, width, height, turn, result)
  IN /\ Len(e) = PlaceOf(board, height, width)
     /\ \A c \in Columns :
          /\ c > 0 => e[PlaceOf(board, height, c) - 1] = "/"
          /\ \A r \in 0 .. RunUp(board, height, c) - 1 :
               e[PlaceOf(board, height, c) + r]
                 = (IF Cell(board, height, <<c, r>>) = "X" THEN "X" ELSE "O")
     /\ Cardinality({i \in 1 .. Len(e) : e[i] = "/"}) = width - 1
     /\ e[Len(e) - 1] = "#"
     /\ e[Len(e)] = (IF result = "Draw" THEN "-"
                     ELSE IF result = "Winner" THEN (IF turn THEN "O" ELSE "X")
                     ELSE (IF turn THEN "o" ELSE "x"))

\* C12 witness: a won game with an empty column and a column that holds
\* stones of both players.
C12_Witness ==
  /\ result = "Winner"
  /\ \E c \in Columns : StackHeight(board, height, c) = 0
  /\ \E c \in Columns :
       /\ StackHeight(board, height, c) >= 2
       /\ Cell(board, height, <<c, 0>>) # Cell(board, height, <<c, 1>>)

\* C13: get_concrete_moves(player) lists nothing when the game is over or
\* player is not the side to move; otherwise it lists exactly the columns
\* 0..width-1 whose top cell is Empty, each once.
C13_ConcreteMoves ==
  \A player \in Players :
    LET moves == get_concrete_moves(board, width, height, turn, result, player)
        open == {c \in Columns : StackHeight(board, height, c) < height}
    IN IF result \in {"Winner", "Draw"} \/ (player = 2) # turn
         THEN moves = <<>>
         ELSE /\ {moves[i] : i \in 1 .. Len(moves)} = open
              /\ Len(moves) = Cardinality(open)

\* C13 witness: an ongoing game with a full column and at least two open
\* ones.
C13_Witness ==
  /\ result = "Ongoing"
  /\ \E c \in Columns : StackHeight(board, height, c) = height
  /\ Len(get_concrete_moves(board, width, height, turn, result, player_to_id(turn))) >= 2
  /\ get_concrete_moves(board, width, height, turn, result, player_to_id(~turn)) = <<>>

\* C14: in a finished game possible_move is false for every column, also
\* for one that still has Empty cells; in an ongoing game it is true exactly
\* for the columns whose top cell is Empty.
C14_PossibleMove ==
  \A c \in Columns :
    possible_move(board, width, height, result, c)
      <=> (result = "Ongoing" /\ StackHeight(board, height, c) < height)

\* C14 witness: a won game with a column that is not full, for which
\* possible_move is false.
C14_Witness ==
  /\ result = "Winner"
  /\ \E c \in Columns :
       /\ StackHeight(board, height, c) < height
       /\ ~possible_move(board, width, height, result, c)

\* C15: players_to_move reports the owner of turn and nobody else when the
\* game is Ongoing, and nobody when it is won or drawn.
C15_PlayersToMove ==
  players_to_move(turn, result) =
    (IF result = "Ongoing" THEN (IF turn THEN {2} ELSE {1}) ELSE {})

\* C15 witness: after a move by PlayerA that leaves the game Ongoing,
\* PlayerB alone is to move.
C15_Witness ==
  /\ last.op = "make_move"
  /\ last.player = 1
  /\ result = "Ongoing"
  /\ players_to_move(turn, result) = {2}

\* C16: get_results reports the owner of turn and nobody else when the game
\* is won, and nobody when it is Ongoing or drawn.
C16_Results ==
  get_results(turn, result) =
    (IF result = "Winner" THEN (IF turn THEN {2} ELSE {1}) ELSE {})

\* C16 witness: a move by PlayerB wins the game and PlayerB alone is
\* reported.
C16_Witness ==
  /\ last.op = "make_move"
  /\ last.player = 2
  /\ result = "Winner"
  /\ get_results(turn, result) = {2}

(***************************************************************************)
(* copy_from: the game of the variables is the target; the source is a     *)
(* second game created with the same options from an accepted state text.  *)
(***************************************************************************)
\* self.copy_from(other) on a game as created or as first imported, other
\* created from `text`.
CopyFrom(text) ==
  LET fresh == GameDataNew(width, height)
      made == import_state(fresh[1], fresh[2], fresh[3], width, height, text)
      other == <<made.board, made.turn, made.result>>
      got == copy_from(data, other)
  IN /\ last.op \in {"create", "import_state"}
     /\ made.ret = "Ok"
     /\ board' = got.self[1]
     /\ turn' = got.self[2]
     /\ result' = got.self[3]
     /\ last' = [op |-> "copy_from", player |-> 0, column |-> 0, ret |-> got.ret,
                 text |-> text, prev |-> result,
                 self_before |-> data, other_before |-> other, other_after |-> got.other]
     /\ UNCHANGED options

NextCopy ==
  \/ \E text \in ImportTexts : ImportFirst(text)
  \/ \E text \in ImportTexts : CopyFrom(text)

SpecCopy == Init /\ [][NextCopy]_vars

\* C17: after b.copy_from(a) on games of equal options, b's board, turn and
\* result are a's (the games are equal and export the same state text),
\* whatever b held before, and a is as it was.
C17_CopyFrom ==
  last.op = "copy_from" =>
    /\ last.ret = "Ok"
    /\ board = last.other_before[1]
    /\ turn = last.other_before[2]
    /\ result = last.other_before[3]
    /\ last.other_after = last.other_before
    /\ export_state(board, width, height, turn, result)
         = export_state(last.other_after[1], width, height,
                        last.other_after[2], last.other_after[3])

\* C17 witness: a drawn target that differed from the won source in board
\* and turn before the call.
C17_Witness ==
  /\ last.op = "copy_from"
  /\ last.self_before[1] # board
  /\ last.self_before[2] # turn
  /\ last.self_before[3] = "Draw"
  /\ result = "Winner"
  /\ BitVecAny(last.self_before[1])
  /\ BitVecAny(board)

(***************************************************************************)
(* Construction from an options text.  Before create there is no game: the *)
(* variables hold an empty placeholder and `last` holds the options text,  *)
(* and they keep the placeholder when create returns an error.             *)
(***************************************************************************)
\* Longest options text of the enumerated family, and largest number of the
\* texts "WxH@L".
MaxOptionsLen == 6
MaxOption == 10

OptionsAlphabet == {"0", "2", "x", " "}

OptionsTexts ==
  UNION {[1 .. n -> OptionsAlphabet] : n \in 0 .. MaxOptionsLen}
  \cup {Decimal(w) \o <<"x">> \o Decimal(h) \o <<"@">> \o Decimal(len) :
          w \in 0 .. MaxOption, h \in 0 .. MaxOption, len \in 0 .. MaxOption}
  \cup { NoText,
         <<"7", "x", "6", "@", "4">>, <<"4", "x", "3", "@", "2">>, <<"7", "x", "4">>,
         <<"-", "5", "x", "4", "@", "2">>, <<"4", "x", "4", "@", "5">>,
         <<"2", "x", "0", "@", "1">>, <<"5", "x", "-", "4", "@", "2">>,
         <<"2", "5", "5", "x", "1", "@", "2", "5", "5">>,
         <<"2", "5", "6", "x", "1", "@", "1">>, <<"0", "0", "7", "x", "6", "@", "4">>,
         <<"7", " ", "6", " ", "4">>, <<"7", "x", "x", "6", "@", "4">>,
         <<"7", "x", "6", "@", "4", " ">>, <<"7", "x", "6", "@", "4", "x">>,
         <<"7", "x", "6", "@", "4", "@", "1">>, <<"a", "x", "b", "@", "c">> }

InitOptions ==
  \E text \in OptionsTexts :
    /\ width = 0
    /\ height = 0
    /\ length = 0
    /\ board = BitVecNew(0)
    /\ turn = FALSE
    /\ result = "Ongoing"
    /\ last = Last("pending", 0, 0, "Ok", text, "Ongoing")

\* ConnectFour::create with the pending options text (None: the default
\* options) and no state text.
Create ==
  LET made == IF last.text = NoText THEN GameOptionsDefault ELSE GameOptionsNew(last.text)
      d == GameDataNew(made.width, made.height)
      got == import_state(d[1], d[2], d[3], made.width, made.height, NoText)
  IN /\ last.op = "pending"
     /\ IF made.ret = "Ok" /\ got.ret = "Ok"
          THEN /\ width' = made.width
               /\ height' = made.height
               /\ length' = made.length
               /\ board' = got.board
               /\ turn' = got.turn
               /\ result' = got.result
               /\ last' = Last("create", 0, 0, "Ok", last.text, "Ongoing")
          ELSE /\ last' = Last("create", 0, 0,
                               IF made.ret # "Ok" THEN made.ret ELSE got.ret,
                               last.text, "Ongoing")
               /\ UNCHANGED <<options, data>>

\* export_options of the created game, and GameOptions::new of that text.
ExportOptions ==
  LET text == export_options(width, height, length)
      again == GameOptionsNew(text)
  IN /\ last.op = "create"
     /\ last.ret = "Ok"
     /\ last' = [op |-> "export_options", player |-> 0, column |-> 0, ret |-> again.ret,
                 text |-> text, prev |-> result, given |-> last.text,
                 again |-> <<again.width, again.height, again.length>>]
     /\ UNCHANGED <<options, data>>

NextOptions == Create \/ ExportOptions

SpecOptions == InitOptions /\ [][NextOptions]_vars

\* An options text read without the parser: the text without the
\* whitespace at both ends, its numerals, the places where a group of
\* numerals starts, and the number that the n-th group denotes.
StripEnds(s) ==
  LET inked == {i \in 1 .. Len(s) : s[i] # " "}
  IN IF inked = {} THEN <<>>
     ELSE LET lo == CHOOSE i \in inked : \A j \in inked : i <= j
              hi == CHOOSE i \in inked : \A j \in inked : i >= j
          IN [k \in 1 .. hi - lo + 1 |-> s[lo + k - 1]]
Numerals == {"0", "1", "2", "3", "4", "5", "6", "7", "8", "9"}
NumeralValue(c) ==
  CASE c = "0" -> 0 [] c = "1" -> 1 [] c = "2" -> 2 [] c = "3" -> 3 [] c = "4" -> 4
    [] c = "5" -> 5 [] c = "6" -> 6 [] c = "7" -> 7 [] c = "8" -> 8 [] c = "9" -> 9
Gaps(t) == {i \in 1 .. Len(t) : t[i] \notin Numerals}
GroupStarts(t) ==
  {i \in 1 .. Len(t) : t[i] \in Numerals /\ (i = 1 \/ t[i - 1] \notin Numerals)}
NthStart(t, n) ==
  CHOOSE i \in GroupStarts(t) : Cardinality({j \in GroupStarts(t) : j < i}) = n - 1
RECURSIVE NumberFrom(_, _, _)
NumberFrom(t, i, acc) ==
  IF i > Len(t) \/ t[i] \notin Numerals THEN acc
  ELSE NumberFrom(t, i + 1, acc * 10 + NumeralValue(t[i]))
Number(t, n) == NumberFrom(t, NthStart(t, n), 0)

\* t is three numbers separated by runs of one or more other characters.
ThreeNumbers(t) ==
  /\ Len(t) > 0
  /\ t[1] \in Numerals
  /\ t[Len(t)] \in Numerals
  /\ Cardinality(GroupStarts(t)) = 3
\* Every run between the numbers is one character long.
SingleGaps(t) == \A i \in Gaps(t) : i + 1 \notin Gaps(t)
\* The three numbers fit in eight bits.
InBytes(t) == \A n \in 1 .. 3 : Number(t, n) <= 255
\* The three numbers are options that a game may have.
GoodOptions(w, h, len) == w >= 1 /\ h >= 1 /\ len >= 1 /\ (len <= w \/ len <= h)

\* C18: create makes no game and returns InvalidOptions exactly when the
\* three numbers parse and one of them is 0 or length exceeds both width and
\* height; it returns InvalidInput when a number is missing, negative or
\* not parseable; every created game has width >= 1, height >= 1 and
\* 1 <= length <= max(width, height).
C18_CreateErrors ==
  last.op = "create" =>
    LET t == StripEnds(last.text)
        parsed == ThreeNumbers(t) /\ SingleGaps(t) /\ InBytes(t)
        missing == Cardinality(GroupStarts(t)) < 3
        negative == \E i \in 1 .. Len(t) : t[i] = "-" /\ (i = 1 \/ t[i - 1] \notin Numerals)
        unparseable == \E n \in 1 .. Cardinality(GroupStarts(t)) : Number(t, n) > 255
    IN /\ last.ret \in {"Ok", "InvalidInput", "InvalidOptions"}
       /\ last.text # NoText =>
            /\ (last.ret = "InvalidOptions")
                 <=> (parsed /\ ~GoodOptions(Number(t, 1), Number(t, 2), Number(t, 3)))
            /\ (missing \/ negative \/ unparseable) => last.ret = "InvalidInput"
            /\ ~parsed => last.ret = "InvalidInput"
       /\ last.ret # "Ok" => (options = <<0, 0, 0>> /\ DOMAIN board = {})
       /\ last.ret = "Ok" =>
            /\ GoodOptions(width, height, length)
            /\ DOMAIN board = 0 .. 2 * width * height - 1

\* C18 witness: "4x4@5" is refused with InvalidOptions and no game exists.
C18_Witness ==
  /\ last.op = "create"
  /\ last.text = <<"4", "x", "4", "@", "5">>
  /\ last.ret = "InvalidOptions"
  /\ width = 0

\* C19 as stated: three numbers separated by runs of any length of
\* non-digit characters are accepted, and text after the third number gives
\* InvalidInput.
C19_AcceptsAnyRun ==
  (last.op = "create" /\ last.text # NoText) =>
    LET t == last.text
    IN /\ (ThreeNumbers(t) /\ InBytes(t)
             /\ GoodOptions(Number(t, 1), Number(t, 2), Number(t, 3)))
            => last.ret = "Ok"
       /\ (\E k \in 1 .. Len(t) - 1 : ThreeNumbers(SubSeq(t, 1, k)) /\ t[k + 1] \notin Numerals)
            => last.ret = "InvalidInput"

\* C19 as amended: with the whitespace at both ends removed, three numbers
\* separated by one non-digit character each, whatever the character, are
\* accepted; a run of two or more characters between two numbers gives
\* InvalidInput, and so does any text after the third number.
C19_AcceptsSingleSeparators ==
  (last.op = "create" /\ last.text # NoText) =>
    LET t == StripEnds(last.text)
    IN /\ (ThreeNumbers(t) /\ SingleGaps(t) /\ InBytes(t)
             /\ GoodOptions(Number(t, 1), Number(t, 2), Number(t, 3)))
            => /\ last.ret = "Ok"
               /\ options = <<Number(t, 1), Number(t, 2), Number(t, 3)>>
       /\ (ThreeNumbers(t) /\ ~SingleGaps(t)) => last.ret = "InvalidInput"
       /\ (\E k \in 1 .. Len(t) - 1 : ThreeNumbers(SubSeq(t, 1, k)) /\ t[k + 1] \notin Numerals)
            => last.ret = "InvalidInput"

\* C19 witness: a text with two different separators and whitespace after
\* the third number is accepted.
C19_Witness ==
  /\ last.op = "create"
  /\ last.text = <<"2", " ", "2", "x", "2", " ">>
  /\ last.ret = "Ok"
  /\ options = <<2, 2, 2>>

\* The text "WxH@L" of three numbers written without leading zeros, and the
\* same text with a space in the place of 'x' and of '@'.
IsWxHatL(t) ==
  /\ ThreeNumbers(t)
  /\ InBytes(t)
  /\ Cardinality(Gaps(t)) = 2
  /\ \E i, j \in Gaps(t) : i < j /\ t[i] = "x" /\ t[j] = "@"
  /\ \A i \in GroupStarts(t) : t[i] = "0" => (i = Len(t) \/ t[i + 1] \notin Numerals)
Spaced(t) == [i \in 1 .. Len(t) |-> IF t[i] \in Numerals THEN t[i] ELSE " "]

\* C20: for valid W, H, L create with "WxH@L" succeeds and export_options
\* gives "W H L"; GameOptions::new of the exported text gives the options of
\* the game; without an options text the game is 7 wide, 6 high, length 4.
C20_OptionsRoundTrip ==
  /\ (last.op = "create" /\ last.text = NoText) =>
       (last.ret = "Ok" /\ options = <<7, 6, 4>>)
  /\ (last.op = "create" /\ last.text # NoText /\ IsWxHatL(last.text)
        /\ GoodOptions(Number(last.text, 1), Number(last.text, 2), Number(last.text, 3))) =>
       /\ last.ret = "Ok"
       /\ options = <<Number(last.text, 1), Number(last.text, 2), Number(last.text, 3)>>
       /\ export_options(width, height, length) = Spaced(last.text)
  /\ last.op = "export_options" =>
       /\ last.ret = "Ok"
       /\ last.again = options
       /\ (last.given # NoText /\ IsWxHatL(last.given)) => last.text = Spaced(last.given)
       /\ last.given = NoText => last.text = <<"7", " ", "6", " ", "4">>

\* C20 witness: the game of "10x7@10" exported "10 7 10", which parsed to
\* the same options.
C20_Witness ==
  /\ last.op = "export_options"
  /\ last.given = <<"1", "0", "x", "7", "@", "1", "0">>
  /\ last.text = <<"1", "0", " ", "7", " ", "1", "0">>
  /\ last.again = <<10, 7, 10>>

(***************************************************************************)
(* The queries of a game: each is called on a game as created or as first  *)
(* imported, and `last` records the call, what it returned (ret) and the   *)
(* value it produced (out).  After a panic nothing more is called.         *)
(***************************************************************************)
Asked(op, player, column, ret, out) ==
  [op |-> op, player |-> player, column |-> column, ret |-> ret, out |-> out,
   text |-> <<>>, prev |-> result]

Alive == last.ret # "panic"

\* Faulty variant: a legal move is made at once.
IsLegalMove_makes_move(player, mov) ==
  LET ret == is_legal_move(board, width, height, turn, result, player, mov)
      d == IF ret = "Ok"
             THEN make_move(board, width, height, length, turn, result, player, mov)
             ELSE data
  IN /\ Alive
     /\ last' = Asked("is_legal_move", player, mov, ret, <<>>)
     /\ board' = d[1]
     /\ turn' = d[2]
     /\ result' = d[3]
     /\ UNCHANGED options

IsLegalMove(player, mov) ==
  /\ Alive
  /\ last' = Asked("is_legal_move", player, mov,
                   is_legal_move(board, width, height, turn, result, player, mov), <<>>)
  /\ UNCHANGED <<options, data>>

GetConcreteMoves(player) ==
  /\ Alive
  /\ last' = Asked("get_concrete_moves", player, 0, "Ok",
                   get_concrete_moves(board, width, height, turn, result, player))
  /\ UNCHANGED <<options, data>>

PlayersToMove ==
  /\ Alive
  /\ last' = Asked("players_to_move", 0, 0, "Ok", players_to_move(turn, result))
  /\ UNCHANGED <<options, data>>

GetResults ==
  /\ Alive
  /\ last' = Asked("get_results", 0, 0, "Ok", get_results(turn, result))
  /\ UNCHANGED <<options, data>>

PossibleMove(column) ==
  /\ Alive
  /\ last' = Asked("possible_move", 0, column, "Ok",
                   possible_move(board, width, height, result, column))
  /\ UNCHANGED <<options, data>>

ExportState ==
  /\ Alive
  /\ last' = Asked("export_state", 0, 0, "Ok", export_state(board, width, height, turn, result))
  /\ UNCHANGED <<options, data>>

ExportOptionsText ==
  /\ Alive
  /\ last' = Asked("export_options", 0, 0, "Ok", export_options(width, height, length))
  /\ UNCHANGED <<options, data>>

PrintBoard ==
  /\ Alive
  /\ last' = Asked("print", 0, 0, "Ok", print(board, width, height))
  /\ UNCHANGED <<options, data>>

Turn ==
  /\ Alive
  /\ last' = Asked("turn", 0, 0, current_turn(turn, result).ret, current_turn(turn, result).out)
  /\ UNCHANGED <<options, data>>

FreeCell(column) ==
  LET row == free_cell(board, width, height, column)
  IN /\ Alive
     /\ last' = IF row = -1 THEN Asked("free_cell", 0, column, "panic", "move impossible")
                ELSE Asked("free_cell", 0, column, "Ok", row)
     /\ UNCHANGED <<options, data>>

NextQuery ==
  \/ \E text \in ImportTexts : ImportFirst(text)
  \/ \E player \in Players, mov \in 0 .. width : IsLegalMove(player, mov)
  \/ \E player \in Players : GetConcreteMoves(player)
  \/ PlayersToMove
  \/ GetResults
  \/ \E column \in 0 .. width - 1 : PossibleMove(column)
  \/ ExportState
  \/ ExportOptionsText
  \/ PrintBoard
  \/ Turn
  \/ \E column \in 0 .. width - 1 : FreeCell(column)

SpecQuery == Init /\ [][NextQuery]_vars

QueryOps ==
  {"is_legal_move", "get_concrete_moves", "players_to_move", "get_results",
   "possible_move", "export_state", "export_options", "print"}

\* C21: is_legal_move, get_concrete_moves, players_to_move, get_results,
\* possible_move, export_state, export_options and print leave the options,
\* the board, the turn and the result as they were, whether they return Ok
\* or an error.
C21_QueriesChangeNothing ==
  [][last'.op \in QueryOps => (options' = options /\ data' = data)]_vars

\* C21 witness: is_legal_move returned an error on a game with stones.
C21_Witness ==
  /\ last.op = "is_legal_move"
  /\ last.ret = "InvalidInput"
  /\ last.column < width
  /\ BitVecAny(board)

\* C22: turn() panics whenever the result is Winner or Draw and returns the
\* stored turn only when the result is Ongoing.
C22_TurnAssertsOngoing ==
  last.op = "turn" =>
    /\ (last.ret = "panic") <=> (result \in {"Winner", "Draw"})
    /\ (last.ret # "panic") => (last.ret = "Ok" /\ result = "Ongoing" /\ last.out = turn)

\* C22 witness: turn() panicked on a won game.
C22_Witness ==
  /\ last.op = "turn"
  /\ last.ret = "panic"
  /\ result = "Winner"

\* The rows of column c whose cell is Empty.
EmptyRows(bits, h, c) == {r \in 0 .. h - 1 : Cell(bits, h, <<c, r>>) = "Empty"}

\* C28: free_cell(column) returns the smallest row whose cell is Empty and
\* panics exactly when the column has no Empty cell; it does not panic for a
\* column that is_legal_move or possible_move accepts.
C28_FreeCell ==
  /\ last.op = "free_cell" =>
       /\ (last.ret = "panic") <=> (EmptyRows(board, height, last.column) = {})
       /\ (last.ret # "panic") =>
            /\ last.out \in EmptyRows(board, height, last.column)
            /\ \A r \in EmptyRows(board, height, last.column) : last.out <= r
  /\ \A c \in Columns :
       (\/ possible_move(board, width, height, result, c)
        \/ \E p \in Players : is_legal_move(board, width, height, turn, result, p, c) = "Ok")
         => free_cell(board, width, height, c) \in EmptyRows(board, height, c)

\* C28 witness: free_cell returned row 2 of a column that holds two stones.
C28_Witness ==
  /\ last.op = "free_cell"
  /\ last.ret = "Ok"
  /\ last.out = 2
  /\ StackHeight(board, height, last.column) = 2

(***************************************************************************)
(* Play from the empty board: a game created without a state text, then    *)
(* moves that is_legal_move accepts (and the calls it rejects).            *)
(***************************************************************************)
\* ConnectFour::create with an options triple and no state text.
InitEmpty ==
  \E w \in 0 .. MaxWidth, h \in 0 .. MaxHeight, len \in 0 .. MaxLength :
    LET d == GameDataNew(w, h)
        got == import_state(d[1], d[2], d[3], w, h, NoText)
    IN /\ w * h <= MaxCells
       /\ OptionsCheck(w, h, len) = "Ok"
       /\ got.ret = "Ok"
       /\ width = w
       /\ height = h
       /\ length = len
       /\ board = got.board
       /\ turn = got.turn
       /\ result = got.result
       /\ last = Last("create", 0, 0, "Ok", NoText, "Ongoing")

NextGame ==
  \/ \E player \in Players, mov \in 0 .. width : MakeMove(player, mov)
  \/ \E player \in Players, mov \in 0 .. width : RejectMove(player, mov)

SpecGame == InitEmpty /\ [][NextGame]_vars

\* The cells of the board that hold st, and whether one of them lies in a
\* run of `length` or more cells of st along some axis.
CellsOf(st) == {pos \in Columns \X Rows : Cell(board, height, pos) = st}
HasRun(st) == \E pos \in CellsOf(st) : InRun(board, width, height, length, pos, st)

\* C25: in play from the empty board an Ongoing game holds no run of
\* `length` or more stones of one owner on any axis, and in a won game the
\* player that get_results reports owns such a run.
C25_ResultMatchesRuns ==
  /\ result = "Ongoing" => (~HasRun("X") /\ ~HasRun("O"))
  /\ result = "Winner" =>
       \E p \in Players : get_results(turn, result) = {p} /\ HasRun(OwnerOf(p))

\* C25 witness: PlayerB won a game of length two or more.
C25_Witness ==
  /\ last.op = "make_move"
  /\ result = "Winner"
  /\ length >= 2
  /\ get_results(turn, result) = {2}
  /\ HasRun("O")
  /\ ~HasRun("X")

\* C26: in play from the empty board PlayerA has as many stones as PlayerB
\* or one more, and in an Ongoing game it is PlayerA's turn exactly when the
\* two numbers are equal.
C26_StoneParity ==
  LET a == Cardinality(CellsOf("X"))
      b == Cardinality(CellsOf("O"))
  IN /\ a - b \in {0, 1}
     /\ result = "Ongoing" => ((turn = FALSE) <=> (a = b))

\* C26 witness: an Ongoing game with two stones of PlayerA and one of
\* PlayerB, PlayerB to move.
C26_Witness ==
  /\ result = "Ongoing"
  /\ Cardinality(CellsOf("X")) = 2
  /\ Cardinality(CellsOf("O")) = 1
  /\ players_to_move(turn, result) = {2}

(***************************************************************************)
(* Play that ends, and stacks without gaps.                                *)
(***************************************************************************)
\* The occupied cells of a board of the current dimensions, and whether one
\* of the players has a legal move.
Occupied(bits) == {pos \in Columns \X Rows : Cell(bits, height, pos) # "Empty"}
SomeLegalMove ==
  \E p \in Players, c \in Columns :
    is_legal_move(board, width, height, turn, result, p, c) = "Ok"

\* C24 as stated: an Ongoing game with s stones, however it was reached, is
\* over after at most width*height - s legal moves: it has a free cell and a
\* legal move, and every move adds one stone.
C24_EveryOngoingGameEnds ==
  [][/\ result = "Ongoing" =>
          (Cardinality(Occupied(board)) < width * height /\ SomeLegalMove)
     /\ last'.op = "make_move" =>
          Cardinality(Occupied(board')) = Cardinality(Occupied(board)) + 1]_vars

\* C24 as amended: every legal move is made in an Ongoing game and adds one
\* stone; the game it leaves is over when the board is full, and has a legal
\* move when it is Ongoing; so has every Ongoing game whose top row is not
\* full.  Play from such a game with s stones therefore ends after at most
\* width*height - s moves.
C24_PlayEnds ==
  [][/\ (result = "Ongoing" /\ ~TopRowOccupied(board, width, height)) =>
          (Cardinality(Occupied(board)) < width * height /\ SomeLegalMove)
     /\ last'.op = "make_move" =>
          /\ result = "Ongoing"
          /\ ~TopRowOccupied(board, width, height)
          /\ Cardinality(Occupied(board')) = Cardinality(Occupied(board)) + 1
          /\ Cardinality(Occupied(board')) = width * height => result' # "Ongoing"
          /\ result' = "Ongoing" => ~TopRowOccupied(board', width, height)]_vars

\* C24 witness: the move that filled the last cell of a board of four or
\* more cells ended the game.
C24_Witness ==
  /\ last.op = "make_move"
  /\ width * height >= 4
  /\ Cardinality(Occupied(board)) = width * height
  /\ result # "Ongoing"

\* self.copy_from(other) at any time, other created with the options of
\* self from `text`.
CopyFromOther(text) ==
  LET fresh == GameDataNew(width, height)
      made == import_state(fresh[1], fresh[2], fresh[3], width, height, text)
      got == copy_from(data, <<made.board, made.turn, made.result>>)
  IN /\ made.ret = "Ok"
     /\ board' = got.self[1]
     /\ turn' = got.self[2]
     /\ result' = got.self[3]
     /\ last' = Last("copy_from", 0, 0, got.ret, text, result)
     /\ UNCHANGED options

\* The state texts of the games that are copied from.
CopySources ==
  { NoText, <<"x", "#", "o">>, <<"o", "/", "X", "#", "O">>, <<"/", "X", "#", "-">> }

\* Every operation that writes the game, in any order.
NextPlay ==
  \/ Next
  \/ \E text \in CopySources : CopyFromOther(text)

SpecPlay == Init /\ [][NextPlay]_vars

\* C23: whatever sequence of create, import_state (accepted or refused),
\* moves that is_legal_move accepted and copy_from led to the state, no
\* occupied cell lies above an Empty cell of its column, and export_state
\* writes as many stones before '#' as the board holds.
C23_ColumnsAreStacks ==
  LET e == export_state(board, width, height, turn, result)
  IN /\ \A c \in Columns, r \in Rows :
          Cell(board, height, <<c, r>>) # "Empty" =>
            \A q \in 0 .. r - 1 : Cell(board, height, <<c, q>>) # "Empty"
     /\ Cardinality({i \in 1 .. Len(e) - 2 : e[i] \in {"X", "O"}})
          = Cardinality(Occupied(board))

\* C23 witness: a move put a third stone on a column while another column
\* is empty.
C23_Witness ==
  /\ last.op = "make_move"
  /\ StackHeight(board, height, last.column) = 3
  /\ \E c \in Columns : StackHeight(board, height, c) = 0

\* C27: for every player p and column c below width, get_concrete_moves(p)
\* lists c exactly when is_legal_move(p, c) returns Ok, and possible_move(c)
\* is true exactly when is_legal_move returns Ok for the side to move; the
\* list is in ascending order without duplicates.
C27_QueriesAgree ==
  /\ \A p \in Players :
       LET moves == get_concrete_moves(board, width, height, turn, result, p)
       IN /\ \A c \in Columns :
               (\E i \in 1 .. Len(moves) : moves[i] = c)
                 <=> is_legal_move(board, width, height, turn, result, p, c) = "Ok"
          /\ \A i, j \in 1 .. Len(moves) : i < j => moves[i] < moves[j]
          /\ \A i \in 1 .. Len(moves) : moves[i] \in Columns
  /\ \A c \in Columns :
       possible_move(board, width, height, result, c)
         <=> \E p \in players_to_move(turn, result) :
               is_legal_move(board, width, height, turn, result, p, c) = "Ok"

\* C27 witness: an Ongoing game of three columns whose middle column is the
\* only full one: the side to move is offered columns 0 and 2.
C27_Witness ==
  /\ result = "Ongoing"
  /\ width = 3
  /\ get_concrete_moves(board, width, height, turn, result, player_to_id(turn)) = <<0, 2>>
  /\ ~possible_move(board, width, height, result, 1)

(***************************************************************************)
(* The direction walker on the board of a new game: one step from a cell   *)
(* of the board, the step back, and the iteration from that cell.          *)
(***************************************************************************)
Walk(d, pos) ==
  LET to == walk(d, pos, width, height)
  IN /\ last' = [op |-> "walk", player |-> 0, column |-> 0, ret |-> "Ok", text |-> <<>>,
                 prev |-> result, d |-> d, pos |-> pos, to |-> to, inv |-> inv(d),
                 back |-> IF to = None THEN None ELSE walk(inv(d), to, width, height),
                 seen |-> Len(iter(board, width, height, pos, d))]
     /\ UNCHANGED <<options, data>>

NextWalk == \E d \in Directions, pos \in Columns \X Rows : Walk(d, pos)

SpecWalk == InitEmpty /\ [][NextWalk]_vars

\* The change of column and row that a direction stands for (north is up,
\* east is right), and the cell reached from pos by k such steps.
Delta(d) ==
  CASE d = "N"  -> <<0, 1>>
    [] d = "NE" -> <<1, 1>>
    [] d = "E"  -> <<1, 0>>
    [] d = "SE" -> <<1, -1>>
    [] d = "S"  -> <<0, -1>>
    [] d = "SW" -> <<-1, -1>>
    [] d = "W"  -> <<-1, 0>>
    [] d = "NW" -> <<-1, 1>>
Ahead(d, pos, k) == <<pos[1] + k * Delta(d)[1], pos[2] + k * Delta(d)[2]>>

\* C29: walk(d, pos) from a cell of the board is the adjacent cell in
\* direction d when that cell is on the board and None otherwise (below row
\* 0 or column 0 too: no wrapped-around position), so that what it returns
\* is on the board and the iteration visits the cells up to the edge.
C29_WalkStaysOnBoard ==
  last.op = "walk" =>
    /\ last.to = (IF Ahead(last.d, last.pos, 1) \in Columns \X Rows
                    THEN Ahead(last.d, last.pos, 1) ELSE None)
    /\ last.to # None => last.to \in Columns \X Rows
    /\ last.seen = Cardinality({k \in 0 .. width + height :
                                  Ahead(last.d, last.pos, k) \in Columns \X Rows})

\* C29 witness: a south-east step from row 0 returned None although the
\* column to the east exists.
C29_Witness ==
  /\ last.op = "walk"
  /\ last.d = "SE"
  /\ last.pos = <<0, 0>>
  /\ width >= 2
  /\ last.to = None

\* C30: inv is an involution without fixed point that undoes a step, and
\* the half-set with the inverses of its members is the eight directions,
\* each once.
C30_InverseUndoesStep ==
  /\ last.op = "walk" =>
       /\ inv(last.inv) = last.d
       /\ last.inv # last.d
       /\ last.to # None => last.back = last.pos
  /\ Len(half) = 4
  /\ {half[i] : i \in 1 .. 4} \cup {inv(half[i]) : i \in 1 .. 4} = Directions
  /\ Cardinality({half[i] : i \in 1 .. 4} \cup {inv(half[i]) : i \in 1 .. 4}) = 8
  /\ \A d \in Directions :
       Cardinality({i \in 1 .. 4 : half[i] = d \/ inv(half[i]) = d}) = 1

\* C30 witness: a north-west step and the south-east step back to the cell
\* it started from.
C30_Witness ==
  /\ last.op = "walk"
  /\ last.d = "NW"
  /\ last.inv = "SE"
  /\ last.to # None
  /\ last.back = last.pos

(***************************************************************************)
(* The two bits of a cell.                                                 *)
(***************************************************************************)
\* The game that create builds from a state text with the options of the
\* current game, or None when create refuses the text.
OtherGame(text) ==
  LET fresh == GameDataNew(width, height)
      made == import_state(fresh[1], fresh[2], fresh[3], width, height, text)
  IN IF made.ret = "Ok" THEN <<made.board>> ELSE None

\* Both bits of every Empty cell are 0, and a game of the same options with
\* the same cells has the same storage.
EmptyCellsAreZero ==
  /\ \A c \in Columns, r \in Rows :
       ~board[idx(<<c, r>>, height)] => ~board[idx(<<c, r>>, height) + 1]
  /\ \A text \in ImportTexts :
       \A other \in {OtherGame(text)} :
         (/\ other # None
          /\ \A c \in Columns, r \in Rows :
               Cell(other[1], height, <<c, r>>) = Cell(board, height, <<c, r>>))
         => other[1] = board

\* Some occupied cell is Empty after the step.
CellEmptied ==
  \E c \in Columns, r \in Rows :
    /\ Cell(board, height, <<c, r>>) # "Empty"
    /\ Cell(board', height, <<c, r>>) = "Empty"

\* C31 as stated: in every reachable state each Empty cell has both bits 0
\* and games of equal options and equal cells have equal storage, and an
\* occupied cell becomes Empty only in a call that runs the full reset
\* (import_state, alone or after export_state).
C31_OnlyResetEmpties ==
  /\ []EmptyCellsAreZero
  /\ [][CellEmptied => last'.op \in {"import_state", "reimport"}]_vars

\* C31: in every reachable state each Empty cell has both bits 0 and games
\* of equal options and equal cells have equal storage; an occupied cell
\* becomes Empty only in import_state (which runs the full reset) or in
\* copy_from (which overwrites the whole storage with that of the other
\* game), and never in a move.
C31_EmptyCellsAreZero ==
  /\ []EmptyCellsAreZero
  /\ [][CellEmptied => last'.op \in {"import_state", "reimport", "copy_from"}]_vars

\* C31 witness: import_state on a finished game ran the full reset, wrote
\* one X and was then refused, which leaves one occupied cell and at least
\* three Empty ones.
C31_Witness ==
  /\ last.op = "import_state"
  /\ last.prev = "Winner"
  /\ last.text = <<"X", "F", "#", "x">>
  /\ last.ret = "InvalidInput"
  /\ Cardinality(Occupied(board)) = 1
  /\ width * height >= 4

(***************************************************************************)
(* The frontend.  The variables of the game hold the game of the frontend  *)
(* (a game of no cells while it has none); `last` holds the other fields   *)
(* of the Frontend, the handler that ran last, the move event it pushed to *)
(* the outbox and the number of calls of turn() it made.  A mouse position *)
(* is the rounded x coordinate on the board.                               *)
(***************************************************************************)
FrontMaxWidth == 2
FrontMaxHeight == 2
FrontMaxCells == 4

\* Mouse::update_position
MouseUpdatePosition(fr, x) == [fr EXCEPT !.current = <<x>>]

\* Mouse::clear
MouseClear(fr) == [fr EXCEPT !.clicked = None]

\* Mouse::update_down
MouseUpdateDown(fr) == [fr EXCEPT !.clicked = fr.current]

\* Mouse::update_up: the frontend after the call and the location returned.
MouseUpdateUp(fr) == [fr |-> MouseClear(fr), out |-> fr.clicked]

\* Mouse::update
MouseUpdate(fr, down) == IF ~down THEN MouseClear(fr) ELSE fr

\* Frontend::clear
FrontendClear(fr) ==
  [MouseClear(fr) EXCEPT !.disabled = FALSE, !.animation = None]

\* Frontend::reset
FrontendReset(fr) == FrontendClear([fr EXCEPT !.game = FALSE])

\* Frontend::default together with the record of the handler that ran.
FrontendDefault(op, ret) ==
  [op |-> op, ret |-> ret, game |-> FALSE, current |-> None, clicked |-> None,
   animation |-> None, disabled |-> FALSE, pushed |-> None, calls |-> 0]

\* The handler that ran, what it returned, the event it pushed and its
\* calls of turn().
Ran(fr, op, ret, pushed, calls) ==
  [fr EXCEPT !.op = op, !.ret = ret, !.pushed = pushed, !.calls = calls]

\* Animation::new: target, started, player, previous.
AnimationNew(to, player) ==
  <<[target |-> to, started |-> FALSE, player |-> player, previous |-> FALSE]>>

\* The cast `as u8` of a rounded coordinate.
AsU8(x) == IF x < 0 THEN 0 ELSE IF x > 255 THEN 255 ELSE x

\* Faulty variant: the column is not filtered by possible_move.
get_column_unfiltered(fr, bits, w, h, res, x) ==
  IF ~fr.game THEN None
  ELSE IF x < 0 \/ w <= AsU8(x) THEN None
  ELSE <<AsU8(x)>>

\* Faulty variant: the filter looks at the top cell only.
get_column_top_cell_only(fr, bits, w, h, res, x) ==
  IF ~fr.game THEN None
  ELSE IF x < 0 \/ w <= AsU8(x) THEN None
  ELSE IF Cell(bits, h, <<AsU8(x), h - 1>>) = "Empty" THEN <<AsU8(x)>>
  ELSE None

\* Frontend::get_column
get_column(fr, bits, w, h, res, x) ==
  IF ~fr.game THEN None
  ELSE IF x < 0 \/ w <= AsU8(x) THEN None
  ELSE IF possible_move(bits, w, h, res, AsU8(x)) THEN <<AsU8(x)>>
  ELSE None

\* Frontend::preview
preview(fr, bits, w, h, res) ==
  IF fr.disabled THEN None
  ELSE LET at == IF fr.clicked # None THEN fr.clicked ELSE fr.current
       IN IF at = None THEN None
          ELSE get_column(fr, bits, w, h, res, at[1])

\* The mouse events of process_input: kind, x, and whether the left button
\* is the one pressed, released or held.
MouseEvents ==
  [kind : {"MouseMotion", "MouseButtonDown", "MouseButtonUp"},
   x : -1 .. width, left : BOOLEAN]
    \cup {[kind |-> "Other", x |-> 0, left |-> FALSE]}

\* The `match event` of process_input: the frontend after it and the
\* location it yields.
MatchEvent(fr, e) ==
  IF e.kind = "MouseMotion"
    THEN [fr |-> MouseUpdate(MouseUpdatePosition(fr, e.x), e.left), out |-> None]
  ELSE IF e.kind = "MouseButtonDown"
    THEN [fr |-> IF e.left THEN MouseUpdateDown(MouseUpdatePosition(fr, e.x))
                 ELSE MouseUpdatePosition(fr, e.x),
          out |-> None]
  ELSE IF e.kind = "MouseButtonUp"
    THEN IF e.left THEN MouseUpdateUp(MouseUpdatePosition(fr, e.x))
         ELSE [fr |-> MouseUpdatePosition(fr, e.x), out |-> None]
  ELSE [fr |-> fr, out |-> None]

\* The end of process_input once both columns agree: the move event is
\* pushed with player_id(), input is disabled and the animation is built
\* from free_cell and turn().
PushMove(fr, bits, w, h, t, res, column) ==
  LET id == current_turn(t, res)
      row == free_cell(bits, w, h, column)
  IN IF id.ret = "panic" THEN Ran(fr, "process_input", "panic", None, 1)
     ELSE IF row = -1
       THEN Ran(fr, "process_input", "panic", <<player_to_id(id.out), column>>, 1)
     ELSE Ran([fr EXCEPT !.disabled = TRUE,
                         !.animation = AnimationNew(<<column, row>>, id.out)],
              "process_input", "Ok", <<player_to_id(id.out), column>>, 2)

\* FrontendMethods::process_input
process_input(fr, bits, w, h, t, res, e) ==
  IF ~fr.game \/ fr.disabled THEN Ran(fr, "process_input", "Ok", None, 0)
  ELSE LET m == MatchEvent(fr, e)
           column == IF m.out = None THEN None
                     ELSE get_column(m.fr, bits, w, h, res, m.out[1])
       IN IF m.out = None \/ m.fr.current = None \/ column = None
            THEN Ran(m.fr, "process_input", "Ok", None, 0)
          ELSE IF column # get_column(m.fr, bits, w, h, res, m.fr.current[1])
            THEN Ran(m.fr, "process_input", "Ok", None, 0)
          ELSE PushMove(m.fr, bits, w, h, t, res, column[1])

\* Animation::update with the clock deciding whether the chip has arrived:
\* the animation after the call and what it returns.
AnimationUpdate(a, arrived) ==
  IF ~a.started THEN [a |-> a, out |-> FALSE]
  ELSE [a |-> [a EXCEPT !.previous = TRUE], out |-> a.previous /\ arrived]

\* FrontendMethods::update
update(fr, arrived) ==
  IF ~fr.game \/ fr.animation = None THEN Ran(fr, "update", "Ok", None, 0)
  ELSE LET u == AnimationUpdate(fr.animation[1], arrived)
       IN IF u.out
            THEN Ran([fr EXCEPT !.animation = None, !.disabled = FALSE],
                     "update", "Ok", None, 0)
            ELSE Ran([fr EXCEPT !.animation = <<u.a>>], "update", "Ok", None, 0)

\* FrontendMethods::render: the preview chip is painted with turn().
render(fr, bits, w, h, t, res) ==
  IF ~fr.game THEN Ran(fr, "render", "Ok", None, 0)
  ELSE IF preview(fr, bits, w, h, res) = None THEN Ran(fr, "render", "Ok", None, 0)
  ELSE Ran(fr, "render", current_turn(t, res).ret, None, 1)

\* The frontend after construction: Frontend::default.
InitFrontend ==
  /\ width = 0
  /\ height = 0
  /\ length = 0
  /\ board = BitVecNew(0)
  /\ turn = FALSE
  /\ result = "Ongoing"
  /\ last = FrontendDefault("create", "Ok")

\* No handler runs after a panic.
Running == last.ret # "panic"

\* State texts of the GameLoadMethods and GameState events.
FrontendTexts ==
  { NoText, <<"#", "X">>, <<"X", "/", "O", "#", "o">>, <<"X", "O", "#", "-">>,
    <<"X", "F", "#", "x">> }

\* process_event, GameLoadMethods: reset, then create; an error of create
\* leaves the frontend without a game.
GameLoadMethods(w, h, len, text) ==
  /\ Running
  /\ LET d == GameDataNew(w, h)
         got == import_state(d[1], d[2], d[3], w, h, text)
         ok == OptionsCheck(w, h, len) = "Ok" /\ got.ret = "Ok"
         fr == FrontendReset(last)
     IN IF ok
          THEN /\ width' = w
               /\ height' = h
               /\ length' = len
               /\ board' = got.board
               /\ turn' = got.turn
               /\ result' = got.result
               /\ last' = Ran([fr EXCEPT !.game = TRUE], "GameLoadMethods", "Ok", None, 0)
          ELSE /\ width' = 0
               /\ height' = 0
               /\ length' = 0
               /\ board' = BitVecNew(0)
               /\ turn' = FALSE
               /\ result' = "Ongoing"
               /\ last' = Ran(fr, "GameLoadMethods",
                              IF OptionsCheck(w, h, len) # "Ok" THEN "InvalidOptions"
                              ELSE got.ret, None, 0)

\* process_event, GameUnload.
GameUnload ==
  /\ Running
  /\ width' = 0
  /\ height' = 0
  /\ length' = 0
  /\ board' = BitVecNew(0)
  /\ turn' = FALSE
  /\ result' = "Ongoing"
  /\ last' = FrontendDefault("GameUnload", "Ok")

\* process_event, GameState: clear, then import_state on the game if any.
GameState(text) ==
  /\ Running
  /\ IF last.game
       THEN LET got == import_state(board, turn, result, width, height, text)
            IN /\ board' = got.board
               /\ turn' = got.turn
               /\ result' = got.result
               /\ last' = Ran(FrontendClear(last), "GameState", got.ret, None, 0)
       ELSE /\ UNCHANGED data
            /\ last' = Ran(FrontendClear(last), "GameState", "Ok", None, 0)
  /\ UNCHANGED options

\* The animation branch of the GameMove handler: the frontend with its
\* animation, the calls of turn() and whether one of them panicked.
MoveAnimation(fr, bits, w, h, t, res, player, column) ==
  IF fr.animation # None
    THEN LET id == current_turn(t, res)
         IN IF id.ret = "panic" THEN [fr |-> fr, calls |-> 1, ret |-> "panic"]
            ELSE IF player = player_to_id(id.out) /\ fr.animation[1].target[1] = column
              THEN [fr |-> [fr EXCEPT !.animation =
                                        <<[fr.animation[1] EXCEPT !.started = TRUE]>>],
                    calls |-> 1, ret |-> "Ok"]
            ELSE [fr |-> [fr EXCEPT !.animation = None], calls |-> 1, ret |-> "Ok"]
    ELSE LET row == free_cell(bits, w, h, column)
         IN IF row = -1 THEN [fr |-> fr, calls |-> 0, ret |-> "panic"]
            ELSE [fr |-> [fr EXCEPT !.animation =
                            <<[AnimationNew(<<column, row>>, player_from_id(player))[1]
                                 EXCEPT !.started = TRUE]>>],
                  calls |-> 0, ret |-> "Ok"]

\* process_event, GameMove with a move that is legal in the game of the
\* frontend: clear, the animation, input disabled, then make_move.
GameMove(player, code) ==
  /\ Running
  /\ IF last.game
       THEN /\ is_legal_move(board, width, height, turn, result, player, code) = "Ok"
            /\ LET a == MoveAnimation(FrontendClear(last), board, width, height, turn,
                                      result, player, code)
                   d == make_move(board, width, height, length, turn, result, player, code)
               IN IF a.ret = "panic"
                    THEN /\ UNCHANGED data
                         /\ last' = Ran(a.fr, "GameMove", "panic", None, a.calls)
                    ELSE /\ board' = d[1]
                         /\ turn' = d[2]
                         /\ result' = d[3]
                         /\ last' = Ran([a.fr EXCEPT !.disabled = TRUE], "GameMove", "Ok",
                                        None, a.calls)
       ELSE /\ player = 1
            /\ code = 0
            /\ UNCHANGED data
            /\ last' = Ran(FrontendClear(last), "GameMove", "Ok", None, 0)
  /\ UNCHANGED options

\* process_input with a mouse event.
ProcessInput(e) ==
  /\ Running
  /\ last' = process_input(last, board, width, height, turn, result, e)
  /\ UNCHANGED <<options, data>>

\* update, with the clock deciding whether the chip has arrived.
Update(arrived) ==
  /\ Running
  /\ last' = update(last, arrived)
  /\ UNCHANGED <<options, data>>

\* render
Render ==
  /\ Running
  /\ last' = render(last, board, width, height, turn, result)
  /\ UNCHANGED <<options, data>>

\* The options of the GameLoadMethods events: every triple within the
\* bounds that create accepts, and one that it refuses.
LoadOptions ==
  {<<0, 0, 0>>} \cup
  {o \in (1 .. FrontMaxWidth) \X (1 .. FrontMaxHeight) \X (1 .. MaxLength) :
     /\ o[1] * o[2] <= FrontMaxCells
     /\ OptionsCheck(o[1], o[2], o[3]) = "Ok"}

\* The state texts of the GameLoadMethods events.
LoadTexts == { NoText, <<"X", "/", "O", "#", "o">> }

NextFrontend ==
  \/ \E o \in LoadOptions, text \in LoadTexts : GameLoadMethods(o[1], o[2], o[3], text)
  \/ GameUnload
  \/ \E text \in FrontendTexts : GameState(text)
  \/ \E player \in Players, code \in 0 .. FrontMaxWidth : GameMove(player, code)
  \/ \E e \in MouseEvents : ProcessInput(e)
  \/ \E arrived \in BOOLEAN : Update(arrived)
  \/ Render

SpecFrontend == InitFrontend /\ [][NextFrontend]_vars

\* C32: every move event that process_input pushes to the outbox names the
\* side to move and a column below width whose top cell is Empty in an
\* Ongoing game, and is_legal_move returns Ok for it in the game of the
\* frontend.
C32_PushedMoveIsLegal ==
  (last.op = "process_input" /\ last.pushed # None) =>
    /\ result = "Ongoing"
    /\ last.pushed[1] = player_to_id(turn)
    /\ last.pushed[2] < width
    /\ Cell(board, height, <<last.pushed[2], height - 1>>) = "Empty"
    /\ is_legal_move(board, width, height, turn, result, last.pushed[1],
                     last.pushed[2]) = "Ok"

\* C32 witness: a click on column 1 pushed a move of player O onto a
\* column that already holds a stone.
C32_Witness ==
  /\ last.op = "process_input"
  /\ last.pushed = <<2, 1>>
  /\ Cell(board, height, <<1, 0>>) # "Empty"
  /\ last.disabled

\* C33: whatever events the frontend has handled, no handler has called
\* turn() or player_id() in a game whose result is Winner or Draw: no
\* handler ends in the panic of the assertion, and a handler that called
\* turn() left the frontend with an Ongoing game.
C33_TurnOnlyWhileOngoing ==
  /\ last.ret # "panic"
  /\ (last.calls > 0 /\ last.op \in {"process_input", "render"}) => result = "Ongoing"

\* C33 witness: render ran in a finished game with input enabled and the
\* mouse over a column whose top cell is Empty, and made no call of turn().
C33_Witness ==
  /\ last.op = "render"
  /\ last.calls = 0
  /\ ~last.disabled
  /\ result # "Ongoing"
  /\ last.current # None
  /\ last.current[1] \in Columns
  /\ Cell(board, height, <<last.current[1], height - 1>>) = "Empty"

(***************************************************************************)
(* The storage words of a BitVec.  A vector is its `data`, a sequence of   *)
(* words, and its `length`; a word is the set of the positions of its 1    *)
(* bits, so that `|= mask` is a union, `&= !mask` a difference and         *)
(* `c != 0` non-emptiness.  `board` holds one vector and `last.other` a    *)
(* second one.                                                             *)
(***************************************************************************)
\* usize::BITS of a 64-bit target.
BITS == 64

\* The vectors have lengths up to MaxSpare bits past a word boundary.
MaxSpare == 2

div_ceil(dividend, divisor) ==
  (dividend \div divisor) + (IF dividend % divisor # 0 THEN 1 ELSE 0)

\* BitVec::new
StorageNew(len) ==
  [data |-> [w \in 1 .. div_ceil(len, BITS) |-> {}], length |-> len]

\* Faulty variant: the assertion on the index is missing; the index is
\* still checked against the number of words.
StorageSet_unchecked(v, index, value) ==
  IF (index \div BITS) + 1 > Len(v.data) THEN [ret |-> "panic", v |-> v]
  ELSE LET mask == {index % BITS}
           container == v.data[(index \div BITS) + 1]
       IN [ret |-> "Ok",
           v |-> [v EXCEPT !.data[(index \div BITS) + 1] =
                             IF value THEN container \cup mask ELSE container \ mask]]

\* BitVec::set: the vector after the call, and "panic" for the assertion
\* "index out of range".
StorageSet(v, index, value) ==
  IF ~(index < v.length) THEN [ret |-> "panic", v |-> v]
  ELSE LET mask == {index % BITS}
           container == v.data[(index \div BITS) + 1]
       IN [ret |-> "Ok",
           v |-> [v EXCEPT !.data[(index \div BITS) + 1] =
                             IF value THEN container \cup mask ELSE container \ mask]]

\* BitVec::copy_from_bitvec: the vector after the call, and "panic" for the
\* assertion on the lengths.
StorageCopyFrom(v, other) ==
  IF v.length # other.length THEN [ret |-> "panic", v |-> v]
  ELSE [ret |-> "Ok", v |-> [v EXCEPT !.data = other.data]]

\* BitVec::reset
StorageReset(v) == [v EXCEPT !.data = [w \in DOMAIN v.data |-> {}]]

\* BitVec::any
StorageAny(v) == \E w \in DOMAIN v.data : v.data[w] # {}

\* Index<usize> for an index below the length.
StorageIndex(v, index) == (index % BITS) \in v.data[(index \div BITS) + 1]

\* The derived PartialEq: the words and the lengths are compared.
StorageEq(v, other) == v.data = other.data /\ v.length = other.length

\* Lengths and indices around the word boundaries.
StorageLengths == {k : k \in 0 .. MaxSpare} \cup {BITS + k : k \in 0 .. MaxSpare}
StorageIndices == {0, BITS - 1} \cup {BITS + k : k \in 0 .. MaxSpare}

\* The call made last on the pair of vectors.
Called(op, ret, other) == [op |-> op, ret |-> ret, other |-> other]

\* Two vectors after BitVec::new.
InitBitVec ==
  \E len \in StorageLengths, olen \in StorageLengths :
    /\ width = 0
    /\ height = 0
    /\ length = 0
    /\ turn = FALSE
    /\ result = "Ongoing"
    /\ board = StorageNew(len)
    /\ last = Called("new", "Ok", StorageNew(olen))

\* set on the first vector.
StorageSetSelf(index, value) ==
  /\ last.ret # "panic"
  /\ LET got == StorageSet(board, index, value)
     IN /\ board' = got.v
        /\ last' = Called("set", got.ret, last.other)
  /\ UNCHANGED <<options, turn, result>>

\* set on the second vector.
StorageSetOther(index, value) ==
  /\ last.ret # "panic"
  /\ LET got == StorageSet(last.other, index, value)
     IN last' = Called("set_other", got.ret, got.v)
  /\ UNCHANGED <<options, data>>

\* reset on the first vector.
StorageResetSelf ==
  /\ last.ret # "panic"
  /\ board' = StorageReset(board)
  /\ last' = Called("reset", "Ok", last.other)
  /\ UNCHANGED <<options, turn, result>>

\* copy_from_bitvec from the second vector to the first.
StorageCopy ==
  /\ last.ret # "panic"
  /\ LET got == StorageCopyFrom(board, last.other)
     IN /\ board' = got.v
        /\ last' = Called("copy_from_bitvec", got.ret, last.other)
  /\ UNCHANGED <<options, turn, result>>

\* new: the second vector is replaced by a new one.
StorageNewOther(len) ==
  /\ last.ret # "panic"
  /\ last' = Called("new_other", "Ok", StorageNew(len))
  /\ UNCHANGED <<options, data>>

NextBitVec ==
  \/ \E index \in StorageIndices, value \in BOOLEAN : StorageSetSelf(index, value)
  \/ \E index \in StorageIndices, value \in BOOLEAN : StorageSetOther(index, value)
  \/ StorageResetSelf
  \/ StorageCopy
  \/ \E len \in StorageLengths : StorageNewOther(len)

SpecBitVec == InitBitVec /\ [][NextBitVec]_vars

\* The bits of the last word of a vector at positions at or past its
\* length.
UnusedBits(v) ==
  IF Len(v.data) = 0 THEN {}
  ELSE {p \in v.data[Len(v.data)] : (Len(v.data) - 1) * BITS + p >= v.length}

\* C34: after any sequence of new, set, reset and copy_from_bitvec no bit
\* of the last word at a position at or past the length is set, in either
\* vector; any() is true exactly when a bit below the length is set, and
\* the word-wise equality of two vectors is the equality of their lengths
\* and of their bits below the length.
C34_UnusedBitsZero ==
  /\ UnusedBits(board) = {}
  /\ UnusedBits(last.other) = {}
  /\ \A w \in DOMAIN board.data : board.data[w] \subseteq 0 .. BITS - 1
  /\ StorageAny(board) <=> \E i \in 0 .. board.length - 1 : StorageIndex(board, i)
  /\ StorageEq(board, last.other) <=>
       /\ board.length = last.other.length
       /\ \A i \in 0 .. board.length - 1 :
            StorageIndex(board, i) <=> StorageIndex(last.other, i)

\* C34 witness: a vector of two words whose last word has one used bit,
\* set by copy_from_bitvec, together with bit 63 of the first word.
C34_Witness ==
  /\ last.op = "copy_from_bitvec"
  /\ last.ret = "Ok"
  /\ board.length = BITS + 1
  /\ board.data = <<{BITS - 1}, {0}>>

(***************************************************************************)
(* The 8-bit arithmetic of the engine.  The range of a u8 is scaled to    *)
(* 0 .. MaxByte and the options run over all of 1 .. MaxByte, so that     *)
(* rows, columns and counts reach the largest value of the type.  Each    *)
(* operator below gives the values, as unbounded integers, that the u8    *)
(* additions, the u8 subtraction and the casts to u8 of a call compute;   *)
(* `last` records them for the call made last.                            *)
(***************************************************************************)
MaxByte == 3

\* At most MaxByteMoves moves are made in a game.
MaxByteMoves == 3

\* The results of the `+= 1` of walk at pos: each is computed before the
\* bounds check that follows it, and after the checked_sub before it.
walk_sums(d, pos) ==
  CASE d = "N"  -> {pos[2] + 1}
    [] d = "NE" -> {pos[1] + 1, pos[2] + 1}
    [] d = "E"  -> {pos[1] + 1}
    [] d = "SE" -> {pos[1] + 1}
    [] d = "NW" -> IF pos[1] = 0 THEN {} ELSE {pos[2] + 1}
    [] OTHER    -> {}

\* DirectionIter: the positions it yields from pos on.
RECURSIVE Path(_, _, _, _)
Path(w, h, pos, d) ==
  IF pos = None THEN <<>>
  ELSE <<pos>> \o Path(w, h, walk(d, pos, w, h), d)

\* DirectionIter::next calls walk on every position it yields: the sums of
\* walk when n items are asked of the iterator.
IterSums(w, h, pos, d, n) ==
  LET p == Path(w, h, pos, d)
  IN UNION {walk_sums(d, p[i]) : i \in 1 .. (IF n < Len(p) THEN n ELSE Len(p))}

\* free_cell: the index that try_into converts to u8, and the sums of the
\* iteration up to the Empty state found.
free_cell_bytes(bits, w, h, column) ==
  LET row == free_cell(bits, w, h, column)
  IN [casts |-> {row} \ {-1},
      sums |-> IterSums(w, h, <<column, 0>>, "N", IF row = -1 THEN h ELSE row + 1)]

\* One pass of the loop body of make_move: `1 + count() as u8`, `length -
\* count`, the second `count +=`, and the sums of the two iterations, each
\* asked for the item it skips, the items it takes and the item that ends
\* take_while.
AxisBytes(bits, w, h, len, pos, state, direction) ==
  LET taken == TakeWhileCount(iter(bits, w, h, pos, direction), 2, 1, len, state)
      count == 1 + taken
      missing == len - count
      back == TakeWhileCount(iter(bits, w, h, pos, inv(direction)), 2, 2, missing, state)
  IN [counts |-> {count, count + back},
      differences |-> {missing},
      casts |-> {taken, back},
      sums |-> IterSums(w, h, pos, direction, taken + 2)
                 \cup IterSums(w, h, pos, inv(direction), back + 2)]

\* The for loop of make_move from position k of the order: the passes made
\* until the loop breaks with a win.
RECURSIVE MoveLoopBytes(_, _, _, _, _, _, _, _)
MoveLoopBytes(bits, w, h, len, pos, state, order, k) ==
  IF k > Len(order) THEN {}
  ELSE {AxisBytes(bits, w, h, len, pos, state, order[k])} \cup
       (IF AxisCount(bits, w, h, len, pos, state, order[k]) >= len THEN {}
        ELSE MoveLoopBytes(bits, w, h, len, pos, state, order, k + 1))

\* make_move: the values of free_cell, of the loop, and of `height - 1` in
\* the draw test with the sums of its iteration over the top row.
make_move_bytes(bits, w, h, len, player, mov) ==
  LET free == free_cell_bytes(bits, w, h, mov)
      pos == <<mov, free_cell(bits, w, h, mov)>>
      state == from_player_id(player)
      b1 == SetCell(bits, h, pos, state)
      passes == MoveLoopBytes(b1, w, h, len, pos, state, half, 1)
      top == iter(b1, w, h, <<0, h - 1>>, "E")
      asked == IF FindEmpty(top, 1) = -1 THEN Len(top) ELSE FindEmpty(top, 1) + 1
  IN [counts |-> UNION {a.counts : a \in passes},
      differences |-> UNION {a.differences : a \in passes} \cup {h - 1},
      casts |-> free.casts \cup UNION {a.casts : a \in passes},
      sums |-> free.sums \cup UNION {a.sums : a \in passes}
                 \cup IterSums(w, h, <<0, h - 1>>, "E", asked)]

\* The character loop of import_state from position k of s with the cursor
\* at pos: the results of `pos.0 += 1` and `pos.1 += 1`.
RECURSIVE ScanSums(_, _, _, _, _)
ScanSums(w, h, s, k, pos) ==
  IF k > Len(s) THEN {}
  ELSE IF s[k] = "#" THEN {}
  ELSE IF s[k] = "/" THEN
    {pos[1] + 1} \cup
    (IF pos[1] + 1 >= w THEN {} ELSE ScanSums(w, h, s, k + 1, <<pos[1] + 1, 0>>))
  ELSE IF pos[2] >= h THEN {}
  ELSE IF eq_ignore_ascii_case(s[k], "X") \/ eq_ignore_ascii_case(s[k], "O") THEN
    {pos[2] + 1} \cup ScanSums(w, h, s, k + 1, <<pos[1], pos[2] + 1>>)
  ELSE {}

\* import_state: the sums of its character loop.
import_state_bytes(w, h, string) ==
  IF string = NoText THEN {} ELSE ScanSums(w, h, trim_start(string), 1, <<0, 0>>)

\* The call made last, the values of its 8-bit arithmetic, and the number
\* of moves made in the game.
Bytes(op, ret, counts, differences, casts, sums, moves) ==
  [op |-> op, ret |-> ret, counts |-> counts, differences |-> differences,
   casts |-> casts,
   sums |-> sums, moves |-> moves]

\* Every option triple of the scaled range.
ByteOptions == (1 .. MaxByte) \X (1 .. MaxByte) \X (1 .. MaxByte)

RECURSIVE RepeatText(_, _)
RepeatText(s, n) == IF n <= 0 THEN <<>> ELSE s \o RepeatText(s, n - 1)

\* State texts that fill the bottom row but its last cell or but its first
\* cell, fill column 0 but its top cell, and run one past the last row and
\* the last column.
ByteTexts(w, h) ==
  { NoText,
    RepeatText(<<"X", "/">>, w - 1) \o <<"#", "x">>,
    RepeatText(<<"/", "X">>, w - 1) \o <<"#", "x">>,
    RepeatText(<<"O">>, h - 1) \o <<"#", "o">>,
    RepeatText(<<"X">>, h + 1) \o <<"#", "x">>,
    RepeatText(<<"/">>, w) \o <<"#", "x">> }

\* ConnectFour::create with any options of the range that it accepts and
\* no state text.
InitBytes ==
  \E o \in ByteOptions :
    /\ OptionsCheck(o[1], o[2], o[3]) = "Ok"
    /\ width = o[1]
    /\ height = o[2]
    /\ length = o[3]
    /\ board = GameDataNew(o[1], o[2])[1]
    /\ turn = GameDataNew(o[1], o[2])[2]
    /\ result = GameDataNew(o[1], o[2])[3]
    /\ last = Bytes("create", "Ok", {}, {}, {}, {}, 0)

\* import_state on the game.
ImportBytes(text) ==
  /\ \A got \in {import_state(board, turn, result, width, height, text)} :
       /\ board' = got.board
       /\ turn' = got.turn
       /\ result' = got.result
       /\ last' = Bytes("import_state", got.ret, {}, {}, {},
                        import_state_bytes(width, height, text), 0)
  /\ UNCHANGED options

\* A move that is_legal_move accepted, then make_move.
MoveBytes(player, mov) ==
  /\ last.moves < MaxByteMoves
  /\ is_legal_move(board, width, height, turn, result, player, mov) = "Ok"
  /\ \A d \in {make_move(board, width, height, length, turn, result, player, mov)} :
       /\ board' = d[1]
       /\ turn' = d[2]
       /\ result' = d[3]
  /\ \A b \in {make_move_bytes(board, width, height, length, player, mov)} :
       last' = Bytes("make_move", "Ok", b.counts, b.differences, b.casts, b.sums,
                     last.moves + 1)
  /\ UNCHANGED options

\* free_cell on a column that has an Empty cell.
FreeCellBytes(column) ==
  /\ free_cell(board, width, height, column) # -1
  /\ \A b \in {free_cell_bytes(board, width, height, column)} :
       last' = Bytes("free_cell", "Ok", {}, {}, b.casts, b.sums, last.moves)
  /\ UNCHANGED <<options, data>>

\* One step of the walker from a cell of the board.
WalkBytes(d, pos) ==
  /\ last' = Bytes("walk", "Ok", {}, {}, {}, walk_sums(d, pos), last.moves)
  /\ UNCHANGED <<options, data>>

\* The corners of the board.
Corners == {0, width - 1} \X {0, height - 1}

NextBytes ==
  \/ \E text \in ByteTexts(width, height) : ImportBytes(text)
  \/ \E player \in Players, mov \in Columns : MoveBytes(player, mov)
  \/ \E column \in Columns : FreeCellBytes(column)
  \/ \E d \in Directions, pos \in Corners : WalkBytes(d, pos)

SpecBytes == InitBytes /\ [][NextBytes]_vars

\* C35: for every accepted option triple of the range of a u8 no value of
\* the 8-bit arithmetic of make_move, walk, import_state and free_cell
\* leaves the range: the count of an axis is between 1 and `length`,
\* `length - count` is not negative, and the incremented rows and columns
\* and the values cast to u8 are at most the largest u8.
C35_NoByteOverflow ==
  /\ last.counts \subseteq 1 .. length
  /\ last.differences \subseteq 0 .. MaxByte
  /\ last.casts \subseteq 0 .. MaxByte
  /\ last.sums \subseteq 0 .. MaxByte

\* C35 witness: with the largest width and length a move into the first
\* column of the bottom row completed a run as long as the row: the walker
\* computed a column equal to the largest u8, the count reached it and
\* `length - count` reached 0.
C35_Witness ==
  /\ last.op = "make_move"
  /\ width = MaxByte
  /\ length = MaxByte
  /\ MaxByte \in last.counts
  /\ MaxByte \in last.sums
  /\ height >= 2
  /\ 0 \in last.differences
  /\ result = "Winner"

====
